---- MODULE Spec2Model ----
(***************************************************************************)
(* Metadata resolution engine of the link-mention plugin: URL              *)
(* normalisation, the URL-slug title extractor, the concurrency gate       *)
(* (acquireSlot / releaseSlot / setMaxConcurrent), the cache, the in-flight*)
(* table and the promise chain of fetchLinkMetadata.                       *)
(*                                                                         *)
(* Strings are sequences of one-character strings, so that parsing,        *)
(* percent-decoding and title-casing are computed, not assumed.            *)
(***************************************************************************)
EXTENDS Integers, Sequences, FiniteSets, TLC

(***************************************************************************)
(* Bounds of the model.                                                    *)
(***************************************************************************)
\* number of fetchLinkMetadata calls made by the view layers in one run
MaxCalls == 3
\* largest value the settings slider is moved to in one run
MaxLimit == 2
\* largest number of labels in a hostname given to normalizeUrl on its own
MaxLabels == 3

(***************************************************************************)
(* Characters and elementary string functions.                             *)
(***************************************************************************)
LowerLetters == <<"a","b","c","d","e","f","g","h","i","j","k","l","m",
                  "n","o","p","q","r","s","t","u","v","w","x","y","z">>

UpperLetters == <<"A","B","C","D","E","F","G","H","I","J","K","L","M",
                  "N","O","P","Q","R","S","T","U","V","W","X","Y","Z">>

Digits == <<"0","1","2","3","4","5","6","7","8","9">>

HexDigits == <<"0","1","2","3","4","5","6","7","8","9","A","B","C","D","E","F">>

\* the printable ASCII characters, code 32 first; the double quote, the
\* backslash and the backtick are written <dq>, <bs> and <bt>
Ascii == <<" ","!","<dq>","#","$","%","&","'","(",")","*","+",",","-",".","/",
           "0","1","2","3","4","5","6","7","8","9",":",";","<","=",">","?",
           "@","A","B","C","D","E","F","G","H","I","J","K","L","M","N","O",
           "P","Q","R","S","T","U","V","W","X","Y","Z","[","<bs>","]","^","_",
           "<bt>","a","b","c","d","e","f","g","h","i","j","k","l","m","n","o",
           "p","q","r","s","t","u","v","w","x","y","z","{","|","}","~">>

Range(s) == { s[i] : i \in 1..Len(s) }

IndexIn(s, c) == CHOOSE i \in 1..Len(s) : s[i] = c

\* String.prototype.toUpperCase on one character
ToUpperCase(c) ==
  IF c \in Range(LowerLetters) THEN UpperLetters[IndexIn(LowerLetters, c)] ELSE c

\* String.prototype.toLowerCase on one character
ToLowerCase(c) ==
  IF c \in Range(UpperLetters) THEN LowerLetters[IndexIn(UpperLetters, c)] ELSE c

StartsWith(s, p) == Len(s) >= Len(p) /\ SubSeq(s, 1, Len(p)) = p

Drop(s, n) == SubSeq(s, n + 1, Len(s))

\* first index i >= from with s[i] in cs, Len(s)+1 when there is none
RECURSIVE IndexOfAny(_, _, _)
IndexOfAny(s, cs, from) ==
  IF from > Len(s) THEN Len(s) + 1
  ELSE IF s[from] \in cs THEN from
  ELSE IndexOfAny(s, cs, from + 1)

\* String.prototype.split on a one-character separator
RECURSIVE Split(_, _)
Split(s, c) ==
  LET i == IndexOfAny(s, {c}, 1) IN
  IF i > Len(s) THEN <<s>>
  ELSE <<SubSeq(s, 1, i - 1)>> \o Split(Drop(s, i), c)

RECURSIVE Concat(_)
Concat(ss) == IF ss = <<>> THEN <<>> ELSE Head(ss) \o Concat(Tail(ss))

\* Array.prototype.join with a separator string
RECURSIVE Join(_, _)
Join(ss, sep) ==
  IF ss = <<>> THEN <<>>
  ELSE IF Len(ss) = 1 THEN Head(ss)
  ELSE Head(ss) \o sep \o Join(Tail(ss), sep)

(***************************************************************************)
(* The platform's URL parser, for the http and https schemes and for       *)
(* mailto.  A string without such a scheme, or an http(s) one with an      *)
(* empty or malformed host, does not parse (new URL throws).  The host is  *)
(* lower-cased, an empty path becomes "/", a space in the path is          *)
(* percent-encoded, percent signs are kept.  A mailto URL has an empty     *)
(* hostname and the rest of the string as its path.                        *)
(***************************************************************************)
SchemeHttps == <<"h","t","t","p","s",":","/","/">>

SchemeHttp == <<"h","t","t","p",":","/","/">>

HostChars == Range(LowerLetters) \cup Range(Digits) \cup {".", "-"}

Lowered(s) == [ i \in 1..Len(s) |-> ToLowerCase(s[i]) ]

RECURSIVE EncodePath(_)
EncodePath(s) ==
  IF s = <<>> THEN <<>>
  ELSE (IF Head(s) = " " THEN <<"%","2","0">> ELSE <<Head(s)>>) \o EncodePath(Tail(s))

\* the segments of a path without its dot segments: ".." removes the
\* segment before it, "." is dropped, and a dot segment at the end leaves an
\* empty last segment
RECURSIVE WithoutDotSegments(_, _)
WithoutDotSegments(parts, out) ==
  IF parts = <<>> THEN out
  ELSE LET seg  == Head(parts)
           last == Len(parts) = 1
           kept == IF seg = <<".",".">>
                   THEN (IF out = <<>> THEN out ELSE SubSeq(out, 1, Len(out) - 1))
                   ELSE IF seg = <<".">> THEN out
                   ELSE Append(out, seg)
       IN  WithoutDotSegments(Tail(parts),
                              IF last /\ seg \in {<<".",".">>, <<".">>}
                              THEN Append(kept, <<>>) ELSE kept)

\* the path of a parsed URL: a path that starts with "/", dot segments
\* removed
RemoveDotSegments(path) ==
  <<"/">> \o Join(WithoutDotSegments(Tail(Split(path, "/")), <<>>), <<"/">>)

SchemeMailto == <<"m","a","i","l","t","o",":">>

\* a URL whose scheme has no authority: hostname is the empty string
OpaqueURL(raw) ==
  [ok       |-> TRUE,
   protocol |-> SchemeMailto,
   hostname |-> <<>>,
   pathname |-> Drop(raw, Len(SchemeMailto)),
   rest     |-> <<>>]

HierarchicalURL(raw) ==
  LET low    == Lowered(raw)
      prefix == IF StartsWith(low, SchemeHttps) THEN SchemeHttps
                ELSE IF StartsWith(low, SchemeHttp) THEN SchemeHttp
                ELSE <<>>
      after  == Drop(raw, Len(prefix))
      hEnd   == IndexOfAny(after, {"/", "?", "#"}, 1)
      host   == Lowered(SubSeq(after, 1, hEnd - 1))
      pEnd   == IndexOfAny(after, {"?", "#"}, hEnd)
      path   == SubSeq(after, hEnd, pEnd - 1)
      good   == /\ prefix # <<>>
                /\ host # <<>>
                /\ \A i \in 1..Len(host) : host[i] \in HostChars
  IN  IF ~good THEN [ok |-> FALSE, raw |-> raw]
      ELSE [ok       |-> TRUE,
            protocol |-> prefix,
            hostname |-> host,
            pathname |-> IF path = <<>> THEN <<"/">> ELSE EncodePath(RemoveDotSegments(path)),
            rest     |-> Drop(after, pEnd - 1)]

URL(raw) ==
  IF StartsWith(Lowered(raw), SchemeMailto) THEN OpaqueURL(raw) ELSE HierarchicalURL(raw)

\* URL.prototype.href
Href(u) == u.protocol \o u.hostname \o u.pathname \o u.rest

\* new URL(path, base).href for an absolute path
HrefAt(u, path) == u.protocol \o u.hostname \o path

\* a normalizer that prepends "https://" to a string without scheme before
\* it parses it
normalizeUrlSchemePrepended(raw) ==
  LET low        == Lowered(raw)
      withScheme == IF StartsWith(low, SchemeHttps) \/ StartsWith(low, SchemeHttp)
                    THEN raw ELSE SchemeHttps \o raw
      u          == URL(withScheme)
  IN  IF u.ok THEN Href(u) ELSE raw

normalizeUrl(raw) ==
  LET u == URL(raw) IN IF u.ok THEN Href(u) ELSE raw

(***************************************************************************)
(* decodeURIComponent: every "%" must be followed by two hex digits, and   *)
(* the decoded bytes must be well-formed UTF-8; otherwise URIError.  A     *)
(* decoded non-ASCII code point is the single character "<u>", a decoded   *)
(* control character is "<c>".                                             *)
(***************************************************************************)
IsHex(c) == ToUpperCase(c) \in Range(HexDigits)

HexVal(c) == IndexIn(HexDigits, ToUpperCase(c)) - 1

\* the byte written as an escape at position i of s, or -1
EscapeAt(s, i) ==
  IF i + 2 <= Len(s) /\ s[i] = "%" /\ IsHex(s[i + 1]) /\ IsHex(s[i + 2])
  THEN 16 * HexVal(s[i + 1]) + HexVal(s[i + 2])
  ELSE -1

\* number of continuation bytes a UTF-8 lead byte asks for, or -1
Continuations(b) ==
  IF b >= 194 /\ b <= 223 THEN 1
  ELSE IF b >= 224 /\ b <= 239 THEN 2
  ELSE IF b >= 240 /\ b <= 244 THEN 3
  ELSE -1

AsciiChar(b) == IF b >= 32 /\ b <= 126 THEN Ascii[b - 31] ELSE "<c>"

RECURSIVE Decode(_, _, _)
Decode(s, i, acc) ==
  IF i > Len(s) THEN [ok |-> TRUE, val |-> acc]
  ELSE IF s[i] # "%" THEN Decode(s, i + 1, Append(acc, s[i]))
  ELSE LET b == EscapeAt(s, i) IN
       IF b < 0 THEN [ok |-> FALSE, val |-> <<>>]
       ELSE IF b < 128 THEN Decode(s, i + 3, Append(acc, AsciiChar(b)))
       ELSE LET n == Continuations(b) IN
            IF n < 0 THEN [ok |-> FALSE, val |-> <<>>]
            ELSE IF \A j \in 1..n :
                      /\ EscapeAt(s, i + 3 * j) >= 128
                      /\ EscapeAt(s, i + 3 * j) <= 191
                 THEN Decode(s, i + 3 + 3 * n, Append(acc, "<u>"))
                 ELSE [ok |-> FALSE, val |-> <<>>]

decodeURIComponent(s) == Decode(s, 1, <<>>)

(***************************************************************************)
(* extractUrlTitle.  The result is [ok, val]: ok = FALSE is an exception   *)
(* leaving the function (the URIError of decodeURIComponent, which the     *)
(* function does not catch).                                               *)
(***************************************************************************)
WordSeparators == {"-", "_", " "}

\* s.split(/[-_\s]+/).filter((w) => w.length > 0)
RECURSIVE Words(_)
Words(s) ==
  LET b == IndexOfAny(s, Range(s) \ WordSeparators, 1) IN
  IF b > Len(s) THEN <<>>
  ELSE LET e == IndexOfAny(s, WordSeparators, b) IN
       <<SubSeq(s, b, e - 1)>> \o Words(Drop(s, e - 1))

\* seg.replace(/[?=&].*/, "")
Cleaned(seg) == SubSeq(seg, 1, IndexOfAny(seg, {"?", "=", "&"}, 1) - 1)

SlugLike(cleaned) ==
  /\ Len(Words(cleaned)) >= 2
  /\ Len(Concat(Words(cleaned))) >= 10

\* the loop over the segments, carrying best (<<>> is undefined)
RECURSIVE BestSegment(_, _)
BestSegment(segments, best) ==
  IF segments = <<>> THEN best
  ELSE LET cleaned == Cleaned(Head(segments)) IN
       IF SlugLike(cleaned) /\ (best = <<>> \/ Len(cleaned) > Len(best))
       THEN BestSegment(Tail(segments), cleaned)
       ELSE BestSegment(Tail(segments), best)

TitleCase(w) == <<ToUpperCase(w[1])>> \o Drop(w, 1)

extractUrlTitle(url) ==
  LET parsed == URL(url) IN
  IF ~parsed.ok THEN [ok |-> TRUE, val |-> url]
  ELSE LET parts   == Split(parsed.pathname, "/")
           decoded == [ i \in 1..Len(parts) |-> decodeURIComponent(parts[i]) ]
       IN  IF \E i \in 1..Len(parts) : ~decoded[i].ok
           THEN [ok |-> FALSE, val |-> <<>>]
           ELSE LET segments == SelectSeq([ i \in 1..Len(parts) |-> decoded[i].val ],
                                          LAMBDA s : s # <<>>)
                    best     == BestSegment(segments, <<>>)
                    words    == Words(best)
                IN  IF best = <<>> THEN [ok |-> TRUE, val |-> parsed.hostname]
                    ELSE [ok  |-> TRUE,
                          val |-> Join([ i \in 1..Len(words) |-> TitleCase(words[i]) ],
                                       <<" ">>)]

(***************************************************************************)
(* The oEmbed table.  A pattern is an anchored regular expression on the   *)
(* URL string: scheme, optional "www.", host and first path characters.    *)
(***************************************************************************)
AfterScheme(url) ==
  IF StartsWith(url, SchemeHttps) THEN <<Drop(url, Len(SchemeHttps))>>
  ELSE IF StartsWith(url, SchemeHttp) THEN <<Drop(url, Len(SchemeHttp))>>
  ELSE <<>>

\* s matches (www\.)?p at its start; the result is the set of remainders
AfterOptionalWww(s, p) ==
  { Drop(s, Len(q)) : q \in { q \in {p, <<"w","w","w",".">> \o p} : StartsWith(s, q) } }

\* patterns whose "www." is not optional
PatternTestWww(i, url) ==
  \E s \in Range(AfterScheme(url)) :
    CASE i = 1 -> StartsWith(s, <<"w","w","w",".","y","o","u","t","u","b","e",".","c","o","m","/","w","a","t","c","h">>)
      [] i = 2 -> StartsWith(s, <<"y","o","u","t","u",".","b","e","/">>)
      [] i = 3 -> /\ StartsWith(s, <<"w","w","w",".","v","i","m","e","o",".","c","o","m","/">>)
                  /\ Len(s) > 14
                  /\ s[15] \in Range(Digits)

PatternTest(i, url) ==
  \E s \in Range(AfterScheme(url)) :
    CASE i = 1 -> AfterOptionalWww(s, <<"y","o","u","t","u","b","e",".","c","o","m","/","w","a","t","c","h">>) # {}
      [] i = 2 -> StartsWith(s, <<"y","o","u","t","u",".","b","e","/">>)
      [] i = 3 -> \E t \in AfterOptionalWww(s, <<"v","i","m","e","o",".","c","o","m","/">>) :
                    t # <<>> /\ t[1] \in Range(Digits)

OEMBED_ENDPOINTS == 1..3

\* the index of the first pattern that matches url, 0 when none does
OembedEndpoint(url) ==
  IF \E i \in OEMBED_ENDPOINTS : PatternTest(i, url)
  THEN CHOOSE i \in OEMBED_ENDPOINTS :
         PatternTest(i, url) /\ \A j \in 1..(i - 1) : ~PatternTest(j, url)
  ELSE 0

(***************************************************************************)
(* The extractors of parsers/html.  A parsed document is given by the text *)
(* of its title element and the content or href attributes of the elements *)
(* the selectors find; <<>> is an absent element or attribute (and an      *)
(* empty one, which the extractors treat alike).  An undefined or null     *)
(* result is <<>>.                                                         *)
(***************************************************************************)
RECURSIVE TrimStart(_)
TrimStart(s) == IF s # <<>> /\ Head(s) = " " THEN TrimStart(Tail(s)) ELSE s

RECURSIVE TrimEnd(_)
TrimEnd(s) ==
  IF s # <<>> /\ s[Len(s)] = " " THEN TrimEnd(SubSeq(s, 1, Len(s) - 1)) ELSE s

\* String.prototype.trim
Trim(s) == TrimEnd(TrimStart(s))

extractOgTitle(doc) == Trim(doc.ogTitle)

extractOgSiteName(doc) == Trim(doc.ogSiteName)

\* an extractor that falls back to og:site_name
extractAuthorOrSiteName(doc) ==
  IF Trim(doc.author) # <<>> THEN Trim(doc.author) ELSE Trim(doc.ogSiteName)

extractAuthor(doc) == Trim(doc.author)

\* the separators of /\s*[·|—]\s*/; the middle dot and the em dash are
\* written <middot> and <emdash>
\* separators that include the plain hyphen
TitleSeparatorsWithHyphen == {"|", "<middot>", "<emdash>", "-"}

\* the characters of /\s*[·|—]\s*/, written <middot> and <emdash>
TitleSeparators == {"|", "<middot>", "<emdash>"}

extractDocTitle(doc) ==
  LET raw == Trim(doc.title) IN
  IF raw = <<>> THEN <<>>
  ELSE Trim(SubSeq(raw, 1, IndexOfAny(raw, TitleSeparators, 1) - 1))

\* t.split(":")[0].trim(), then .split("/").pop()?.trim()
LastOfWithoutDesc(t) ==
  LET withoutDesc == Trim(Split(t, ":")[1])
      parts       == Split(withoutDesc, "/")
  IN  Trim(parts[Len(parts)])

extractGithubTitle(doc) ==
  IF extractOgTitle(doc) # <<>> THEN LastOfWithoutDesc(extractOgTitle(doc))
  ELSE IF extractDocTitle(doc) # <<>> THEN LastOfWithoutDesc(extractDocTitle(doc))
  ELSE <<>>

\* the directory of a path: the path up to and including its last "/"
RECURSIVE Directory(_)
Directory(path) ==
  IF path = <<>> \/ path[Len(path)] = "/" THEN path
  ELSE Directory(SubSeq(path, 1, Len(path) - 1))

\* new URL(href, base).href as [ok, val], for a parsed href h and a parsed
\* base b: the base is parsed first and a base that does not parse throws;
\* then an absolute href stands for itself, an href with scheme that
\* does not parse throws, a relative href needs a base with a host and
\* replaces its path (from the root with a leading "/", else from the
\* directory of the base)
Resolved(href, h, b) ==
  IF ~b.ok THEN [ok |-> FALSE, val |-> <<>>]
  ELSE IF h.ok THEN [ok |-> TRUE, val |-> Href(h)]
  ELSE IF StartsWith(Lowered(href), SchemeHttps) \/ StartsWith(Lowered(href), SchemeHttp)
  THEN [ok |-> FALSE, val |-> <<>>]
  ELSE IF b.hostname = <<>> THEN [ok |-> FALSE, val |-> <<>>]
  ELSE IF Head(href) = "/" THEN [ok |-> TRUE, val |-> HrefAt(b, href)]
  ELSE [ok |-> TRUE, val |-> HrefAt(b, Directory(b.pathname) \o href)]

Resolve(href, base) == Resolved(href, URL(href), URL(base))

\* the hrefs of link[rel="icon"], link[rel="shortcut icon"] and
\* link[rel="apple-touch-icon"] of a document, in the order of the
\* selectors; <<>> is a link that is absent or has no href
FaviconLinks(doc) == <<doc.icon, doc.shortcutIcon, doc.appleTouchIcon>>

\* extractFaviconUrl on the hrefs of the selectors: the first href that is
\* present and resolves, <<>> for null
RECURSIVE extractFaviconUrl(_, _)
extractFaviconUrl(links, pageUrl) ==
  IF links = <<>> THEN <<>>
  ELSE IF Head(links) # <<>> /\ Resolve(Head(links), pageUrl).ok
  THEN Resolve(Head(links), pageUrl).val
  ELSE extractFaviconUrl(Tail(links), pageUrl)

\* a fetchFavicon that prefers the last declared link to the first
fetchFaviconCharsLastLink(pageUrl, links) ==
  IF extractFaviconUrl(links, pageUrl) # <<>>
  THEN extractFaviconUrl(<<links[3], links[2], links[1]>>, pageUrl)
  ELSE IF Resolve(<<"/","f","a","v","i","c","o","n",".","i","c","o">>, pageUrl).ok
  THEN Resolve(<<"/","f","a","v","i","c","o","n",".","i","c","o">>, pageUrl).val
  ELSE <<>>

\* fetchFavicon: links are the favicon links of the document, <<>> when
\* the document is null
fetchFaviconChars(pageUrl, links) ==
  IF extractFaviconUrl(links, pageUrl) # <<>> THEN extractFaviconUrl(links, pageUrl)
  ELSE IF Resolve(<<"/","f","a","v","i","c","o","n",".","i","c","o">>, pageUrl).ok
  THEN Resolve(<<"/","f","a","v","i","c","o","n",".","i","c","o">>, pageUrl).val
  ELSE <<>>

(***************************************************************************)
(* The oEmbed client.                                                      *)
(***************************************************************************)
\* the characters encodeURIComponent leaves as they are
Unreserved ==
  Range(LowerLetters) \cup Range(UpperLetters) \cup Range(Digits)
    \cup {"-", "_", ".", "!", "~", "*", "'", "(", ")"}

\* encodeURIComponent on a string of printable ASCII characters
RECURSIVE encodeURIComponent(_)
encodeURIComponent(s) ==
  IF s = <<>> THEN <<>>
  ELSE (IF Head(s) \in Unreserved THEN <<Head(s)>>
        ELSE LET code == IndexIn(Ascii, Head(s)) + 31
             IN  <<"%", HexDigits[(code \div 16) + 1], HexDigits[(code % 16) + 1]>>)
       \o encodeURIComponent(Tail(s))

\* the endpoint of each entry of OEMBED_ENDPOINTS
EndpointUrl ==
  << <<"h","t","t","p","s",":","/","/","w","w","w",".","y","o","u","t","u","b","e",".","c","o","m","/","o","e","m","b","e","d","?","f","o","r","m","a","t","=","j","s","o","n","&","u","r","l","=">>,
     <<"h","t","t","p","s",":","/","/","w","w","w",".","y","o","u","t","u","b","e",".","c","o","m","/","o","e","m","b","e","d","?","f","o","r","m","a","t","=","j","s","o","n","&","u","r","l","=">>,
     <<"h","t","t","p","s",":","/","/","v","i","m","e","o",".","c","o","m","/","a","p","i","/","o","e","m","b","e","d",".","j","s","o","n","?","u","r","l","=">> >>

\* undefined, as the result of fetchOembed
NoOembed == [found |-> FALSE, title |-> <<>>, author |-> <<>>]

\* the body of the try of fetchOembed once requestUrl has settled: a
\* response is [kind]: requestUrl (or the parsing of the JSON) throws, or
\* there is a JSON body with its title and author_name (<<>> when absent)
OembedParsed(response) ==
  IF response.kind = "throw" THEN NoOembed
  ELSE IF Trim(response.title) = <<>> THEN NoOembed
  ELSE [found |-> TRUE, title |-> Trim(response.title), author |-> Trim(response.author)]

\* a client that asks the first endpoint when no pattern matches
fetchOembedCharsAnyUrl(url, response) ==
  LET i == IF OembedEndpoint(url) = 0 THEN 1 ELSE OembedEndpoint(url) IN
  [requests |-> <<EndpointUrl[i] \o encodeURIComponent(url)>>,
   result   |-> OembedParsed(response)]

\* fetchOembed on characters: the requests it issues and what it returns
fetchOembedChars(url, response) ==
  LET i == OembedEndpoint(url) IN
  IF i = 0 THEN [requests |-> <<>>, result |-> NoOembed]
  ELSE [requests |-> <<EndpointUrl[i] \o encodeURIComponent(url)>>,
        result   |-> OembedParsed(response)]

(***************************************************************************)
(* extractRedditTitle.  The result is [ok, found, title, author]: found =  *)
(* FALSE is undefined, ok = FALSE the URIError of decodeURIComponent.      *)
(***************************************************************************)
RedditHosts == { <<"r","e","d","d","i","t",".","c","o","m">>,
                 <<"w","w","w",".","r","e","d","d","i","t",".","c","o","m">>,
                 <<"o","l","d",".","r","e","d","d","i","t",".","c","o","m">> }

NoReddit == [ok |-> TRUE, found |-> FALSE, title |-> <<>>, author |-> <<>>]

Reddit(title, author) == [ok |-> TRUE, found |-> TRUE, title |-> title, author |-> author]

extractRedditTitle(url) ==
  LET parsed == URL(url) IN
  IF ~parsed.ok THEN NoReddit
  ELSE IF parsed.hostname \notin RedditHosts THEN NoReddit
  ELSE LET parts  == Split(parsed.pathname, "/")
           \* REDDIT_POST_RE: /r/{subreddit}/comments/{id}/{slug}
           isPost == /\ Len(parts) >= 6
                     /\ parts[2] = <<"r">> /\ parts[3] # <<>>
                     /\ parts[4] = <<"c","o","m","m","e","n","t","s">>
                     /\ parts[5] # <<>> /\ parts[6] # <<>>
       IN  IF isPost
           THEN LET slug == decodeURIComponent(parts[6]) IN
                IF ~slug.ok THEN [NoReddit EXCEPT !.ok = FALSE]
                ELSE LET words == Words(slug.val)
                         title == Join([ i \in 1..Len(words) |-> TitleCase(words[i]) ],
                                       <<" ">>)
                     IN  IF title # <<>>
                         THEN Reddit(title, <<"r","/">> \o parts[3])
                         ELSE NoReddit
           ELSE IF Len(parts) >= 3 /\ parts[2] = <<"r">> /\ parts[3] # <<>>
           THEN Reddit(<<"r","/">> \o parts[3], <<>>)
           ELSE IF Len(parts) >= 3 /\ parts[2] = <<"u","s","e","r">> /\ parts[3] # <<>>
           THEN Reddit(<<"u","/">> \o parts[3], <<>>)
           ELSE NoReddit

(***************************************************************************)
(* doFetch after the oEmbed attempt returned undefined, on characters.  A  *)
(* response is [kind]: requestUrl throws, or answers with a content type   *)
(* that is not text/html ("other") or is ("html", with the document).  The *)
(* result is [ok, title, favicon, author]; ok = FALSE is an exception      *)
(* leaving doFetch.                                                        *)
(***************************************************************************)
ThrownChars == [ok |-> FALSE, title |-> <<>>, favicon |-> <<>>, author |-> <<>>]

ReturnedChars(title, favicon, author) ==
  [ok |-> TRUE, title |-> title, favicon |-> favicon, author |-> author]

GithubHosts == { <<"g","i","t","h","u","b",".","c","o","m">>,
                 <<"w","w","w",".","g","i","t","h","u","b",".","c","o","m">> }

\* siteTitle: the extractor for the hostname, only GitHub has one
SiteTitle(parsed, doc) ==
  IF parsed.ok /\ parsed.hostname \in GithubHosts THEN extractGithubTitle(doc) ELSE <<>>

\* an exception of extractRedditTitle is caught and ignored
RedditTitle(parsed, url) ==
  IF parsed.ok /\ parsed.hostname \in RedditHosts THEN extractRedditTitle(url) ELSE NoReddit

\* siteTitle ?? extractDocTitle(doc) ?? extractOgTitle(doc)
FirstTitle(site, docTitle, ogTitle) ==
  IF site # <<>> THEN site
  ELSE IF docTitle # <<>> THEN docTitle
  ELSE ogTitle

\* the return statements of doFetch: the reddit result, then the title of
\* the page, then extractUrlTitle(url), which may throw
PageMetadata(reddit, title, slug, favicon, author) ==
  IF reddit.ok /\ reddit.found
  THEN ReturnedChars(reddit.title, favicon, reddit.author)
  ELSE IF title # <<>>
  THEN ReturnedChars(title, favicon, author)
  ELSE IF slug.ok
  THEN ReturnedChars(slug.val, favicon, author)
  ELSE ThrownChars

doFetchPageChars(url, response) ==
  IF response.kind = "throw" THEN ThrownChars
  ELSE IF response.kind = "other"
  THEN PageMetadata(NoReddit, <<>>, extractUrlTitle(url), fetchFaviconChars(url, <<>>), <<>>)
  ELSE PageMetadata(RedditTitle(URL(url), url),
                    FirstTitle(SiteTitle(URL(url), response.doc),
                               extractDocTitle(response.doc),
                               extractOgTitle(response.doc)),
                    extractUrlTitle(url),
                    fetchFaviconChars(url, FaviconLinks(response.doc)),
                    extractAuthor(response.doc))

(***************************************************************************)
(* The strings of the state are TLA+ strings.  Chars gives the characters  *)
(* of every string that occurs in a run, and Str is its inverse, so that   *)
(* the functions above are applied to the characters of a string.          *)
(***************************************************************************)
Chars ==
  "" :> <<>> @@
  "https://b.io/read-me-first" :>
    <<"h","t","t","p","s",":","/","/","b",".","i","o","/","r","e","a","d","-","m","e","-","f","i","r","s","t">> @@
  "HTTPS://B.io/read-me-first" :>
    <<"H","T","T","P","S",":","/","/","B",".","i","o","/","r","e","a","d","-","m","e","-","f","i","r","s","t">> @@
  "https://c.io/%E0" :>
    <<"h","t","t","p","s",":","/","/","c",".","i","o","/","%","E","0">> @@
  "https://youtu.be/x" :>
    <<"h","t","t","p","s",":","/","/","y","o","u","t","u",".","b","e","/","x">> @@
  "Read Me First" :>
    <<"R","e","a","d"," ","M","e"," ","F","i","r","s","t">> @@
  "Page" :>
    <<"P","a","g","e">> @@
  "Clip" :>
    <<"C","l","i","p">> @@
  "b.io" :>
    <<"b",".","i","o">> @@
  "c.io" :>
    <<"c",".","i","o">> @@
  "youtu.be" :>
    <<"y","o","u","t","u",".","b","e">> @@
  "Ann" :>
    <<"A","n","n">> @@
  "Bob" :>
    <<"B","o","b">> @@
  "/i.png" :>
    <<"/","i",".","p","n","g">> @@
  "https://b.io/i.png" :>
    <<"h","t","t","p","s",":","/","/","b",".","i","o","/","i",".","p","n","g">> @@
  "https://b.io/favicon.ico" :>
    <<"h","t","t","p","s",":","/","/","b",".","i","o","/","f","a","v","i","c","o","n",".","i","c","o">> @@
  "https://c.io/i.png" :>
    <<"h","t","t","p","s",":","/","/","c",".","i","o","/","i",".","p","n","g">> @@
  "https://c.io/favicon.ico" :>
    <<"h","t","t","p","s",":","/","/","c",".","i","o","/","f","a","v","i","c","o","n",".","i","c","o">> @@
  "https://youtu.be/i.png" :>
    <<"h","t","t","p","s",":","/","/","y","o","u","t","u",".","b","e","/","i",".","p","n","g">> @@
  "https://youtu.be/favicon.ico" :>
    <<"h","t","t","p","s",":","/","/","y","o","u","t","u",".","b","e","/","f","a","v","i","c","o","n",".","i","c","o">> @@
  "example.com" :>
    <<"e","x","a","m","p","l","e",".","c","o","m">> @@
  "https://www.example.com/" :>
    <<"h","t","t","p","s",":","/","/","w","w","w",".","e","x","a","m","p","l","e",".","c","o","m","/">> @@
  "www.example.com" :>
    <<"w","w","w",".","e","x","a","m","p","l","e",".","c","o","m">> @@
  "https://www.example.com/favicon.ico" :>
    <<"h","t","t","p","s",":","/","/","w","w","w",".","e","x","a","m","p","l","e",".","c","o","m","/","f","a","v","i","c","o","n",".","i","c","o">> @@
  "https://www.example.com/i.png" :>
    <<"h","t","t","p","s",":","/","/","w","w","w",".","e","x","a","m","p","l","e",".","c","o","m","/","i",".","p","n","g">> @@
  "https://example.com/" :>
    <<"h","t","t","p","s",":","/","/","e","x","a","m","p","l","e",".","c","o","m","/">> @@
  "https://example.com/favicon.ico" :>
    <<"h","t","t","p","s",":","/","/","e","x","a","m","p","l","e",".","c","o","m","/","f","a","v","i","c","o","n",".","i","c","o">> @@
  "https://example.com/i.png" :>
    <<"h","t","t","p","s",":","/","/","e","x","a","m","p","l","e",".","c","o","m","/","i",".","p","n","g">> @@
  "mailto:a@b.co" :>
    <<"m","a","i","l","t","o",":","a","@","b",".","c","o">>

\* the string of a character sequence, as a table (the inverse of Chars)
Strings ==
  [ cs \in { Chars[s] : s \in DOMAIN Chars } |-> CHOOSE s \in DOMAIN Chars : Chars[s] = cs ]

Str(cs) == Strings[cs]

(***************************************************************************)
(* Inputs: the raw URL strings the view layers pass in, and what the       *)
(* network answers.                                                        *)
(***************************************************************************)
\* a path with a slug, and another spelling of the same URL
UrlSlug == "https://b.io/read-me-first"

UrlSlugUpper == "HTTPS://B.io/read-me-first"

\* a path with a percent-escape that is not UTF-8
UrlBadEscape == "https://c.io/%E0"

\* a URL that the second oEmbed pattern matches
UrlVideo == "https://youtu.be/x"

RawUrls == {UrlSlug, UrlSlugUpper, UrlBadEscape, UrlVideo}

\* two spellings of one page, without scheme and "www." and with them
UrlBare == "example.com"

UrlFull == "https://www.example.com/"

SpelledUrls == {UrlBare, UrlFull, UrlVideo}

\* a link that is not to a web page: it parses, and has no hostname
UrlMail == "mailto:a@b.co"

OpaqueUrls == {UrlMail, UrlBare}

\* normalizeUrl on the raw URLs, computed once
Normalized ==
  [ raw \in RawUrls \cup SpelledUrls \cup OpaqueUrls |-> Str(normalizeUrl(Chars[raw])) ]

\* the keys of the cache and of the in-flight table for a set of raw URLs
KeysOf(raws) == { Normalized[r] : r \in raws }

Keys == KeysOf(RawUrls)

AllKeys == KeysOf(DOMAIN Normalized)

\* the parsed pages of the model: one with a title, an author and a favicon
\* link, and one without any of them
Docs ==
  { [title |-> "Page", ogTitle |-> "", ogSiteName |-> "", author |-> "Ann",
     icon |-> "/i.png", shortcutIcon |-> "", appleTouchIcon |-> ""],
    [title |-> "", ogTitle |-> "", ogSiteName |-> "", author |-> "", icon |-> "",
     shortcutIcon |-> "", appleTouchIcon |-> ""] }

\* what requestUrl does for the page: it throws, or it answers with a
\* content type that is text/html (and a document) or is not
PageResponses ==
  { [kind |-> "throw"], [kind |-> "other"] } \cup { [kind |-> "html", doc |-> d] : d \in Docs }

\* what fetchOembed gets: a response with a title, one without, or a throw
OembedResponses ==
  { [kind |-> "throw"],
    [kind |-> "json", title |-> "", author |-> ""],
    [kind |-> "json", title |-> "Clip", author |-> "Bob"] }

(***************************************************************************)
(* State.                                                                  *)
(***************************************************************************)
VARIABLES
  maxConcurrent,  \* let maxConcurrent
  activeCount,    \* let activeCount
  waiting,        \* const waiting: the queued resolvers, by resolution
  cache,          \* const cache: normalized URL -> LinkMetadata
  inflight,       \* const inflight: normalized URL -> pending promise
  resolutions,    \* the promise chains built by fetchLinkMetadata
  calls,          \* the promises returned to the callers
  loaded,         \* the plugin's onload has run
  argument,       \* the argument of a function applied on its own
  returned,       \* what that function returned, NotCalled before the call
  view,           \* the reading view: the rendered element and its callbacks
  editor          \* the Live Preview editor and the state of its ViewPlugin

vars == <<maxConcurrent, activeCount, waiting, cache, inflight, resolutions, calls, loaded,
         argument, returned, view, editor>>

\* the variables of the view layers, which the metadata module leaves alone
ui == <<view, editor>>

\* no element has been rendered in reading view
NotRendered == [rendered |-> FALSE]

\* no editor has been opened in Live Preview
NotOpened == [opened |-> FALSE]

\* the value of `let maxConcurrent` at module load
InitialMaxConcurrent == 4

\* a LinkMetadata object; oid is the identity of the object (the number of
\* the resolution that constructed it)
LinkMetadata(title, favicon, author, oid) ==
  [title |-> title, favicon |-> favicon, author |-> author, oid |-> oid]

\* undefined, as the result of Map.get
Undefined == LinkMetadata("", "", "", 0)

Rids == 1..Len(resolutions)

\* no function has been applied on its own
NotCalled == [called |-> FALSE]

\* the module as loaded: the state before any call; the two maps are empty,
\* and are functions on the keys that the calls of a run can produce
ModuleLoadFor(keys) ==
  /\ maxConcurrent = InitialMaxConcurrent
  /\ activeCount = 0
  /\ waiting = <<>>
  /\ cache = [ k \in keys |-> Undefined ]
  /\ inflight = [ k \in keys |-> 0 ]
  /\ resolutions = <<>>
  /\ calls = <<>>
  /\ loaded = FALSE
  /\ view = NotRendered
  /\ editor = NotOpened

ModuleLoad == ModuleLoadFor(Keys)

\* the engine's variables, which a function applied on its own leaves alone
engine == <<maxConcurrent, activeCount, waiting, cache, inflight, resolutions, calls, loaded>>

Init ==
  /\ ModuleLoad
  /\ argument = NotCalled
  /\ returned = NotCalled

(***************************************************************************)
(* doFetch, as a function of what the network answers.  A result is        *)
(* [ok, title, favicon, author]; ok = FALSE is an exception leaving doFetch*)
(***************************************************************************)
Thrown == [ok |-> FALSE, title |-> "", favicon |-> "", author |-> ""]

Returned(title, favicon, author) ==
  [ok |-> TRUE, title |-> title, favicon |-> favicon, author |-> author]

\* extractUrlTitle on the URLs of the model, computed once
UrlTitle ==
  [ url \in AllKeys |-> LET t == extractUrlTitle(Chars[url])
                     IN  [ok |-> t.ok, val |-> Str(t.val)] ]

\* the first matching oEmbed pattern of the URLs of the model
Endpoint == [ url \in AllKeys |-> OembedEndpoint(Chars[url]) ]

\* fetchFavicon(pageUrl, null)
fetchFavicon(pageUrl) == Str(fetchFaviconChars(Chars[pageUrl], <<>>))

\* the characters of the fields of a document
DocChars(doc) == [ f \in DOMAIN doc |-> Chars[doc[f]] ]

\* the strings of a result of doFetchPageChars
Interned(result) ==
  IF result.ok
  THEN Returned(Str(result.title), Str(result.favicon), Str(result.author))
  ELSE Thrown

\* the part of doFetch after the oEmbed attempt returned undefined
doFetchPage(url, response) ==
  Interned(doFetchPageChars(Chars[url],
                            IF response.kind = "html"
                            THEN [kind |-> "html", doc |-> DocChars(response.doc)]
                            ELSE response))

\* what fetchOembed returns for a response of the endpoint: the title and
\* the author, with an empty title for undefined
fetchOembed(response) ==
  LET parsed == OembedParsed(IF response.kind = "json"
                             THEN [kind   |-> "json",
                                   title  |-> Chars[response.title],
                                   author |-> Chars[response.author]]
                             ELSE response)
  IN  [title |-> Str(parsed.title), author |-> Str(parsed.author)]

\* doFetchPage and the favicon at the origin on the URLs of the model,
\* computed once
PageResult == [ url \in AllKeys |-> [ response \in PageResponses |-> doFetchPage(url, response) ] ]

OriginFavicon == [ url \in AllKeys |-> fetchFavicon(url) ]

(***************************************************************************)
(* The gate.                                                               *)
(***************************************************************************)
\* a gate that admits one fetch more than the limit
SlotFreeOffByOne == activeCount <= maxConcurrent

\* the test of acquireSlot
SlotFree == activeCount < maxConcurrent

(***************************************************************************)
(* The plugin's onload: loadSettings, then setMaxConcurrent with the saved *)
(* setting, then the registration of the two view layers, which are the    *)
(* callers of fetchLinkMetadata.                                           *)
(***************************************************************************)
onload(n) ==
  /\ ~loaded
  /\ loaded' = TRUE
  /\ maxConcurrent' = n
  /\ UNCHANGED <<activeCount, waiting, cache, inflight, resolutions, calls, argument, returned, ui>>

\* the slider's onChange in the settings tab
setMaxConcurrent(n) ==
  /\ loaded
  /\ maxConcurrent' = n
  /\ UNCHANGED <<activeCount, waiting, cache, inflight, resolutions, calls, loaded, argument, returned, ui>>

(***************************************************************************)
(* fetchLinkMetadata(raw): the synchronous part, up to the return of the   *)
(* promise.  A caller's promise is recorded in calls.                      *)
(***************************************************************************)
\* a resolver that does not consult the cache
CacheHitNever(key) == FALSE

CacheHit(key) == cache[key] # Undefined

\* a resolver that does not consult the in-flight table
InflightHitNever(key) == FALSE

InflightHit(key) == inflight[key] # 0

\* the synchronous part of fetchLinkMetadata(raw), whoever the caller is
fetchLinkMetadataCall(raw) ==
  LET normalized == Normalized[raw]
      rid        == Len(resolutions) + 1
  IN
  /\ loaded
  /\ Len(calls) < MaxCalls
  /\ IF CacheHit(normalized)
     THEN /\ calls' = Append(calls, [raw |-> raw, rid |-> 0, state |-> "fulfilled",
                                     value |-> cache[normalized]])
          /\ UNCHANGED <<activeCount, waiting, inflight, resolutions>>
     ELSE IF InflightHit(normalized)
     THEN /\ calls' = Append(calls, [raw |-> raw, rid |-> inflight[normalized],
                                     state |-> "pending", value |-> Undefined])
          /\ UNCHANGED <<activeCount, waiting, inflight, resolutions>>
     ELSE /\ activeCount' = IF SlotFree THEN activeCount + 1 ELSE activeCount
          /\ waiting' = IF SlotFree THEN waiting ELSE Append(waiting, rid)
          /\ resolutions' = Append(resolutions,
                                   [key |-> normalized,
                                    pc |-> IF SlotFree THEN "granted" ELSE "queued",
                                    result |-> Thrown,
                                    requests |-> <<>>])
          /\ inflight' = [inflight EXCEPT ![normalized] = rid]
          /\ calls' = Append(calls, [raw |-> raw, rid |-> rid,
                                     state |-> "pending", value |-> Undefined])
  /\ UNCHANGED <<maxConcurrent, cache, loaded>>

\* a resolver that takes its slot before it looks in the cache and in the
\* in-flight table
fetchLinkMetadataSlotFirst(raw) ==
  LET normalized == Normalized[raw]
      rid        == Len(resolutions) + 1
  IN
  /\ loaded
  /\ Len(calls) < MaxCalls
  /\ IF CacheHit(normalized)
     THEN /\ calls' = Append(calls, [raw |-> raw, rid |-> 0, state |-> "fulfilled",
                                     value |-> cache[normalized]])
          /\ activeCount' = activeCount + 1
          /\ UNCHANGED <<waiting, inflight, resolutions>>
     ELSE IF InflightHit(normalized)
     THEN /\ calls' = Append(calls, [raw |-> raw, rid |-> inflight[normalized],
                                     state |-> "pending", value |-> Undefined])
          /\ activeCount' = activeCount + 1
          /\ UNCHANGED <<waiting, inflight, resolutions>>
     ELSE /\ activeCount' = IF SlotFree THEN activeCount + 1 ELSE activeCount
          /\ waiting' = IF SlotFree THEN waiting ELSE Append(waiting, rid)
          /\ resolutions' = Append(resolutions,
                                   [key |-> normalized,
                                    pc |-> IF SlotFree THEN "granted" ELSE "queued",
                                    result |-> Thrown,
                                    requests |-> <<>>])
          /\ inflight' = [inflight EXCEPT ![normalized] = rid]
          /\ calls' = Append(calls, [raw |-> raw, rid |-> rid,
                                     state |-> "pending", value |-> Undefined])
  /\ UNCHANGED <<maxConcurrent, cache, loaded, argument, returned, ui>>

\* fetchLinkMetadata called by a caller that is not modelled
fetchLinkMetadata(raw) ==
  /\ fetchLinkMetadataCall(raw)
  /\ UNCHANGED <<argument, returned, ui>>

(***************************************************************************)
(* The promise chain of one resolution r:                                  *)
(*   acquireSlot().then(() => doFetch(normalized)).finally(releaseSlot)    *)
(*     .then(store in cache).catch(fallback)                               *)
(***************************************************************************)
\* .then(() => doFetch(normalized)): doFetch starts and issues its first
\* request, to the oEmbed endpoint when a pattern matches, else to the page
doFetchStart(r) ==
  /\ resolutions[r].pc = "granted"
  /\ resolutions' = [resolutions EXCEPT
       ![r].pc = IF Endpoint[resolutions[r].key] # 0 THEN "oembed" ELSE "page",
       ![r].requests = IF Endpoint[resolutions[r].key] # 0
                       THEN <<"oembed">> ELSE <<"page">>]
  /\ UNCHANGED <<maxConcurrent, activeCount, waiting, cache, inflight, calls, loaded, argument, returned, ui>>

\* a doFetch whose oEmbed attempt is not guarded: a failed oEmbed request
\* ends doFetch with the exception
doFetchOembedUncaught(r, response) ==
  LET oembed == fetchOembed(response)
      url    == resolutions[r].key
  IN
  /\ resolutions[r].pc = "oembed"
  /\ resolutions' =
       IF response.kind = "throw"
       THEN [resolutions EXCEPT ![r].pc = "fetched", ![r].result = Thrown]
       ELSE IF oembed.title # ""
       THEN [resolutions EXCEPT
               ![r].pc = "fetched",
               ![r].result = Returned(oembed.title, OriginFavicon[url], oembed.author)]
       ELSE [resolutions EXCEPT
               ![r].pc = "page",
               ![r].requests = Append(@, "page")]
  /\ UNCHANGED <<maxConcurrent, activeCount, waiting, cache, inflight, calls, loaded, argument, returned, ui>>

\* the oEmbed request settles; with a title doFetch returns, without one it
\* issues the page request
doFetchOembed(r, response) ==
  LET oembed == fetchOembed(response)
      url    == resolutions[r].key
  IN
  /\ resolutions[r].pc = "oembed"
  /\ resolutions' =
       IF oembed.title # ""
       THEN [resolutions EXCEPT
               ![r].pc = "fetched",
               ![r].result = Returned(oembed.title, OriginFavicon[url], oembed.author)]
       ELSE [resolutions EXCEPT
               ![r].pc = "page",
               ![r].requests = Append(@, "page")]
  /\ UNCHANGED <<maxConcurrent, activeCount, waiting, cache, inflight, calls, loaded, argument, returned, ui>>

\* the page request settles and doFetch runs to its end
doFetchResponse(r, response) ==
  /\ resolutions[r].pc = "page"
  /\ resolutions' = [resolutions EXCEPT
       ![r].pc = "fetched",
       ![r].result = PageResult[resolutions[r].key][response]]
  /\ UNCHANGED <<maxConcurrent, activeCount, waiting, cache, inflight, calls, loaded, argument, returned, ui>>

\* a releaseSlot that takes the next waiter off the queue and never calls it
releaseSlotDropsWaiter(r) ==
  /\ resolutions[r].pc = "fetched"
  /\ activeCount' = activeCount - 1
  /\ waiting' = IF waiting # <<>> THEN Tail(waiting) ELSE waiting
  /\ resolutions' = [resolutions EXCEPT ![r].pc = "released"]
  /\ UNCHANGED <<maxConcurrent, cache, inflight, calls, loaded, argument, returned, ui>>

\* a releaseSlot that gives the slot up without waking a waiter
releaseSlotWithoutWake(r) ==
  /\ resolutions[r].pc = "fetched"
  /\ activeCount' = activeCount - 1
  /\ waiting' = waiting
  /\ resolutions' = [resolutions EXCEPT ![r].pc = "released"]
  /\ UNCHANGED <<maxConcurrent, cache, inflight, calls, loaded, argument, returned, ui>>

\* a chain that releases the slot with .then, so only when doFetch returned
releaseSlotOnSuccess(r) ==
  /\ resolutions[r].pc = "fetched"
  /\ IF ~resolutions[r].result.ok
     THEN /\ activeCount' = activeCount
          /\ waiting' = waiting
          /\ resolutions' = [resolutions EXCEPT ![r].pc = "released"]
     ELSE IF waiting # <<>>
     THEN /\ activeCount' = (activeCount - 1) + 1
          /\ waiting' = Tail(waiting)
          /\ resolutions' = [resolutions EXCEPT ![r].pc = "released",
                                                ![Head(waiting)].pc = "granted"]
     ELSE /\ activeCount' = activeCount - 1
          /\ waiting' = waiting
          /\ resolutions' = [resolutions EXCEPT ![r].pc = "released"]
  /\ UNCHANGED <<maxConcurrent, cache, inflight, calls, loaded, argument, returned, ui>>

\* .finally(releaseSlot)
releaseSlot(r) ==
  /\ resolutions[r].pc = "fetched"
  /\ IF waiting # <<>>
     THEN /\ activeCount' = (activeCount - 1) + 1
          /\ waiting' = Tail(waiting)
          /\ resolutions' = [resolutions EXCEPT ![r].pc = "released",
                                                ![Head(waiting)].pc = "granted"]
     ELSE /\ activeCount' = activeCount - 1
          /\ waiting' = waiting
          /\ resolutions' = [resolutions EXCEPT ![r].pc = "released"]
  /\ UNCHANGED <<maxConcurrent, cache, inflight, calls, loaded, argument, returned, ui>>

\* the promises of the callers attached to resolution r settle with it
Settled(r, state, value) ==
  [ i \in 1..Len(calls) |->
      IF calls[i].rid = r /\ calls[i].state = "pending"
      THEN [calls[i] EXCEPT !.state = state, !.value = value]
      ELSE calls[i] ]

\* a success handler that forgets cache.set
thenHandlerWithoutCache(r) ==
  LET res  == resolutions[r]
      meta == LinkMetadata(res.result.title, res.result.favicon, res.result.author, r)
  IN
  /\ res.pc = "released"
  /\ res.result.ok
  /\ cache' = cache
  /\ inflight' = [inflight EXCEPT ![res.key] = 0]
  /\ calls' = Settled(r, "fulfilled", meta)
  /\ resolutions' = [resolutions EXCEPT ![r].pc = "done"]
  /\ UNCHANGED <<maxConcurrent, activeCount, waiting, loaded, argument, returned, ui>>

\* a success handler that forgets inflight.delete
thenHandlerKeepsInflight(r) ==
  LET res  == resolutions[r]
      meta == LinkMetadata(res.result.title, res.result.favicon, res.result.author, r)
  IN
  /\ res.pc = "released"
  /\ res.result.ok
  /\ cache' = [cache EXCEPT ![res.key] = meta]
  /\ inflight' = inflight
  /\ calls' = Settled(r, "fulfilled", meta)
  /\ resolutions' = [resolutions EXCEPT ![r].pc = "done"]
  /\ UNCHANGED <<maxConcurrent, activeCount, waiting, loaded, argument, returned, ui>>

\* .then((meta) => { cache.set; inflight.delete; return meta })
thenHandler(r) ==
  LET res  == resolutions[r]
      meta == LinkMetadata(res.result.title, res.result.favicon, res.result.author, r)
  IN
  /\ res.pc = "released"
  /\ res.result.ok
  /\ cache' = [cache EXCEPT ![res.key] = meta]
  /\ inflight' = [inflight EXCEPT ![res.key] = 0]
  /\ calls' = Settled(r, "fulfilled", meta)
  /\ resolutions' = [resolutions EXCEPT ![r].pc = "done"]
  /\ UNCHANGED <<maxConcurrent, activeCount, waiting, loaded, argument, returned, ui>>

\* a failure handler that stores the fallback in the cache
catchHandlerCaching(r) ==
  LET res   == resolutions[r]
      title == UrlTitle[res.key]
  IN
  /\ res.pc = "released"
  /\ ~res.result.ok
  /\ cache' = [cache EXCEPT ![res.key] = LinkMetadata(title.val, "", "", r)]
  /\ inflight' = [inflight EXCEPT ![res.key] = 0]
  /\ calls' = IF title.ok
              THEN Settled(r, "fulfilled", LinkMetadata(title.val, "", "", r))
              ELSE Settled(r, "rejected", Undefined)
  /\ resolutions' = [resolutions EXCEPT ![r].pc = "done"]
  /\ UNCHANGED <<maxConcurrent, activeCount, waiting, loaded, argument, returned, ui>>

\* a failure handler that forgets inflight.delete
catchHandlerKeepsInflight(r) ==
  LET res   == resolutions[r]
      title == UrlTitle[res.key]
  IN
  /\ res.pc = "released"
  /\ ~res.result.ok
  /\ cache' = cache
  /\ inflight' = inflight
  /\ calls' = IF title.ok
              THEN Settled(r, "fulfilled", LinkMetadata(title.val, "", "", r))
              ELSE Settled(r, "rejected", Undefined)
  /\ resolutions' = [resolutions EXCEPT ![r].pc = "done"]
  /\ UNCHANGED <<maxConcurrent, activeCount, waiting, loaded, argument, returned, ui>>

\* .catch(() => { inflight.delete; return fallback }); extractUrlTitle may
\* throw in the handler, and then the promise is rejected
catchHandler(r) ==
  LET res   == resolutions[r]
      title == UrlTitle[res.key]
  IN
  /\ res.pc = "released"
  /\ ~res.result.ok
  /\ cache' = cache
  /\ inflight' = [inflight EXCEPT ![res.key] = 0]
  /\ calls' = IF title.ok
              THEN Settled(r, "fulfilled", LinkMetadata(title.val, "", "", r))
              ELSE Settled(r, "rejected", Undefined)
  /\ resolutions' = [resolutions EXCEPT ![r].pc = "done"]
  /\ UNCHANGED <<maxConcurrent, activeCount, waiting, loaded, argument, returned, ui>>

(***************************************************************************)
(* Specifications.  NextFixed is the program with the limit set once, by   *)
(* onload; Next adds the settings slider.                                  *)
(***************************************************************************)
Limits == 1..MaxLimit

NextFixed ==
  \/ \E n \in Limits : onload(n)
  \/ \E raw \in RawUrls : fetchLinkMetadata(raw)
  \/ \E r \in Rids : doFetchStart(r)
  \/ \E r \in Rids : \E response \in OembedResponses : doFetchOembed(r, response)
  \/ \E r \in Rids : \E response \in PageResponses : doFetchResponse(r, response)
  \/ \E r \in Rids : releaseSlot(r)
  \/ \E r \in Rids : thenHandler(r)
  \/ \E r \in Rids : catchHandler(r)

Next ==
  \/ NextFixed
  \/ \E n \in Limits : setMaxConcurrent(n)

Spec == Init /\ [][Next]_vars

SpecFixed == Init /\ [][NextFixed]_vars

\* the program with the limit set once, called with the two spellings of one
\* page and with an oEmbed URL
NextSpelled ==
  \/ \E n \in Limits : onload(n)
  \/ \E raw \in SpelledUrls : fetchLinkMetadata(raw)
  \/ \E r \in Rids : doFetchStart(r)
  \/ \E r \in Rids : \E response \in OembedResponses : doFetchOembed(r, response)
  \/ \E r \in Rids : \E response \in PageResponses : doFetchResponse(r, response)
  \/ \E r \in Rids : releaseSlot(r)
  \/ \E r \in Rids : thenHandler(r)
  \/ \E r \in Rids : catchHandler(r)

InitSpelled ==
  /\ ModuleLoadFor(KeysOf(SpelledUrls))
  /\ argument = NotCalled
  /\ returned = NotCalled

SpecSpelled == InitSpelled /\ [][NextSpelled]_vars

\* the program on links that are not to a web page: requestUrl throws for
\* them, so that only the failure handler runs
NextOpaque ==
  \/ \E n \in Limits : onload(n)
  \/ \E raw \in OpaqueUrls : fetchLinkMetadata(raw)
  \/ \E r \in Rids : doFetchStart(r)
  \/ \E r \in Rids : doFetchResponse(r, [kind |-> "throw"])
  \/ \E r \in Rids : releaseSlot(r)
  \/ \E r \in Rids : catchHandler(r)

InitOpaque ==
  /\ ModuleLoadFor(KeysOf(OpaqueUrls))
  /\ argument = NotCalled
  /\ returned = NotCalled

SpecOpaque == InitOpaque /\ [][NextOpaque]_vars

\* the program with the limit set once, on a network where every page answers
\* with a status that is not 2xx: an HTML error page, or a body that is not
\* HTML
ErrorStatuses == {404, 500}

ErrorAnswers ==
  { [status |-> st, kind |-> "other"] : st \in ErrorStatuses }
    \cup { [status |-> st, kind |-> "html", doc |-> d] : st \in ErrorStatuses, d \in Docs }

\* a requestUrl that throws for a status of 400 and above
requestUrlThrowing(answer) ==
  IF answer.status >= 400 THEN [kind |-> "throw"]
  ELSE IF answer.kind = "html" THEN [kind |-> "html", doc |-> answer.doc]
  ELSE [kind |-> answer.kind]

\* requestUrl({url, method, headers, throw: false}): the response is handed
\* to doFetch whatever its status, and doFetch does not read the status
requestUrl(answer) ==
  IF answer.kind = "html" THEN [kind |-> "html", doc |-> answer.doc]
  ELSE [kind |-> answer.kind]

NextStatus ==
  \/ \E n \in Limits : onload(n)
  \/ \E raw \in RawUrls : fetchLinkMetadata(raw)
  \/ \E r \in Rids : doFetchStart(r)
  \/ \E r \in Rids : \E response \in OembedResponses : doFetchOembed(r, response)
  \/ \E r \in Rids : \E answer \in ErrorAnswers : doFetchResponse(r, requestUrl(answer))
  \/ \E r \in Rids : releaseSlot(r)
  \/ \E r \in Rids : thenHandler(r)
  \/ \E r \in Rids : catchHandler(r)

SpecStatus == Init /\ [][NextStatus]_vars

(***************************************************************************)
(* The reading view.  Obsidian renders a section of a note to an element   *)
(* and calls readingViewPostProcessor on it.  An anchor of the element is  *)
(* [href, text]: the href attribute ("" when there is none) and the        *)
(* textContent.                                                            *)
(***************************************************************************)
\* the largest number of a.external-link anchors in a rendered element
MaxLinks == 2

ViewHrefs == {"", UrlSlug, UrlBadEscape}

ViewTexts ==
  { <<>>,
    <<" ">>,
    Chars[UrlSlug],
    <<" ">> \o Chars[UrlSlug] \o <<" ">>,
    <<"C","l","i","c","k"," ","h","e","r","e">> }

\* an anchor without href has no text or a text of its own; the anchor of
\* the URL with the escape has no text
Anchors ==
  [href : {UrlSlug}, text : ViewTexts]
    \cup [href : {""}, text : {<<>>, <<"C","l","i","c","k"," ","h","e","r","e">>}]
    \cup [href : {UrlBadEscape}, text : {<<>>}]

Elements == UNION { [1..n -> Anchors] : n \in 1..MaxLinks }

\* the a.external-link nodes of an element as rendered; a node has an
\* identity
LinkNodes(el) ==
  [ i \in 1..Len(el) |-> [id |-> i, kind |-> "link", href |-> el[i].href, text |-> el[i].text] ]

\* createPill(title, favicon, href, author), as a node with identity id
createPill(id, title, favicon, href, author) ==
  [id |-> id, kind |-> "pill", href |-> href, title |-> title,
   favicon |-> favicon, author |-> author]

\* an isEmptyTextLink that compares the text as it is
isEmptyTextLinkUntrimmed(el) ==
  LET href == Chars[el.href]
      text == el.text
  IN  text = <<>> \/ text = href

isEmptyTextLink(el) ==
  LET href == Chars[el.href]
      text == Trim(el.text)
  IN  text = <<>> \/ text = href

\* the anchors that the loop of readingViewPostProcessor replaces
Replaced(node) == node.kind = "link" /\ isEmptyTextLink(node) /\ node.href # ""

\* getCachedMetadata(url)
getCachedMetadata(raw) == cache[Normalized[raw]]

\* new URL(href).hostname, or href when it does not parse
HostOrHref(href) ==
  IF URL(Chars[href]).ok THEN Str(URL(Chars[href]).hostname) ELSE href

\* HostOrHref on the hrefs of the model, computed once
Placeholder == [ href \in ViewHrefs |-> HostOrHref(href) ]

\* node.replaceWith(new) on the children of the element; nothing happens
\* when the node is not among them
ReplaceWith(nodes, id, new) ==
  [ i \in 1..Len(nodes) |-> IF nodes[i].id = id THEN new ELSE nodes[i] ]

\* the node that the loop puts in the place of an anchor: the pill of the
\* cached metadata, or the placeholder with the hostname
PillFor(node) ==
  IF getCachedMetadata(node.href) # Undefined
  THEN createPill(Len(view.nodes) + node.id, getCachedMetadata(node.href).title,
                  getCachedMetadata(node.href).favicon, node.href,
                  getCachedMetadata(node.href).author)
  ELSE createPill(Len(view.nodes) + node.id, Placeholder[node.href], "", node.href, "")

\* the placeholders of the loop, in the order of the anchors: each one
\* waits for fetchLinkMetadata(href)
RECURSIVE Placeholders(_)
Placeholders(nodes) ==
  IF nodes = <<>> THEN <<>>
  ELSE (IF Replaced(Head(nodes)) /\ getCachedMetadata(Head(nodes).href) = Undefined
        THEN <<PillFor(Head(nodes))>> ELSE <<>>) \o Placeholders(Tail(nodes))

\* the view layers run to completion: no callback runs while the loop of
\* the post-processor has calls to make
ViewIdle == view.rendered => view.toFetch = <<>>

\* Obsidian renders an element
render(el) ==
  /\ loaded
  /\ ~view.rendered
  /\ view' = [rendered |-> TRUE, links |-> el, nodes |-> LinkNodes(el),
              toFetch |-> <<>>, callbacks |-> {}, processed |-> FALSE, nextId |-> Len(el) + 1]
  /\ UNCHANGED <<engine, argument, returned, editor>>

\* readingViewPostProcessor(el): the replacements of the loop; the calls of
\* fetchLinkMetadata that the loop makes follow, one by one, before anything
\* else runs
readingViewPostProcessor ==
  /\ view.rendered
  /\ ~view.processed
  /\ Len(calls) + Len(Placeholders(view.nodes)) <= MaxCalls
  /\ view' = [view EXCEPT
       !.processed = TRUE,
       !.nodes   = [ i \in 1..Len(view.nodes) |->
                      IF Replaced(view.nodes[i]) THEN PillFor(view.nodes[i])
                      ELSE view.nodes[i] ],
       !.toFetch = Placeholders(view.nodes),
       !.nextId  = 2 * Len(view.nodes) + 1]
  /\ UNCHANGED <<engine, argument, returned, editor>>

\* fetchLinkMetadata(href).then(...) for the next placeholder of the loop
postProcessorFetch ==
  /\ view.rendered
  /\ view.toFetch # <<>>
  /\ fetchLinkMetadataCall(Head(view.toFetch).href)
  /\ view' = [view EXCEPT
       !.toFetch   = Tail(@),
       !.callbacks = @ \cup {[call |-> Len(calls) + 1, placeholder |-> Head(view.toFetch).id]}]
  /\ UNCHANGED <<argument, returned, editor>>

\* (meta) => { placeholder.replaceWith(createPill(meta...)) }, when the
\* promise of the call is fulfilled
postProcessorThen(cb) ==
  LET meta == calls[cb.call].value
      href == calls[cb.call].raw
  IN
  /\ view.rendered
  /\ view.toFetch = <<>>
  /\ cb \in view.callbacks
  /\ calls[cb.call].state = "fulfilled"
  /\ view' = [view EXCEPT
       !.nodes     = ReplaceWith(@, cb.placeholder,
                                 createPill(view.nextId, meta.title, meta.favicon, href, meta.author)),
       !.callbacks = @ \ {cb},
       !.nextId    = @ + 1]
  /\ UNCHANGED <<engine, argument, returned, editor>>

CallbackSet == IF view.rendered THEN view.callbacks ELSE {}

\* the network of the view layers: the page request throws, or answers
\* with the page that has a title
ViewResponses ==
  { [kind |-> "throw"] } \cup { [kind |-> "html", doc |-> d] : d \in { e \in Docs : e.title # "" } }

\* the program with the reading view; Live Preview, which is not modelled
\* here, may call fetchLinkMetadata before the element is rendered

NextReading ==
  \/ onload(MaxLimit)
  \/ \E el \in Elements : render(el)
  \/ readingViewPostProcessor
  \/ postProcessorFetch
  \/ \E cb \in CallbackSet : postProcessorThen(cb)
  \/ ~view.rendered /\ fetchLinkMetadata(UrlSlug)
  \/ \E r \in Rids : ViewIdle /\ doFetchStart(r)
  \/ \E r \in Rids : \E response \in ViewResponses : ViewIdle /\ doFetchResponse(r, response)
  \/ \E r \in Rids : ViewIdle /\ releaseSlot(r)
  \/ \E r \in Rids : ViewIdle /\ thenHandler(r)
  \/ \E r \in Rids : ViewIdle /\ catchHandler(r)

SpecReading == Init /\ [][NextReading]_vars

(***************************************************************************)
(* Live Preview.  The editor has a document and a selection; the           *)
(* ViewPlugin keeps the decorations and the links of its last scan.  The   *)
(* whole document is visible and the search panel is closed or its query   *)
(* is empty, so that getSelectedSearchRange returns null.  Offsets count   *)
(* from 0.                                                                 *)
(***************************************************************************)
\* the end of a match of EMPTY_LINK_RE that starts at index i of the text
\* (the index of the closing parenthesis), 0 when there is none
MatchEnd(text, i) ==
  LET open   == <<"[","]","(">>
      rest   == Drop(text, i - 1 + Len(open))
      scheme == IF StartsWith(rest, SchemeHttps) THEN SchemeHttps
                ELSE IF StartsWith(rest, SchemeHttp) THEN SchemeHttp
                ELSE <<>>
      body   == i + Len(open) + Len(scheme)
      close  == IndexOfAny(text, {")", "\r", "\n"}, body)
  IN  IF /\ StartsWith(Drop(text, i - 1), open)
         /\ scheme # <<>>
         /\ close > body
         /\ close <= Len(text)
         /\ text[close] = ")"
      THEN close ELSE 0

\* the matches of EMPTY_LINK_RE in the text from index i on, as KnownLinks
RECURSIVE Matches(_, _)
Matches(text, i) ==
  IF i > Len(text) THEN <<>>
  ELSE IF MatchEnd(text, i) # 0
  THEN <<[from |-> i - 1, to |-> MatchEnd(text, i),
          url |-> Str(SubSeq(text, i + 3, MatchEnd(text, i) - 1))]>>
         \o Matches(text, MatchEnd(text, i) + 1)
  ELSE Matches(text, i + 1)

\* the documents of the model, each written down with the spans of its
\* links [](url): a link between two letters, two links one after the
\* other, and a link with a text
EditorDocs ==
  { [text  |-> <<"a","[","]","(","h","t","t","p","s",":","/","/","b",".","i","o","/","r","e","a","d","-","m","e","-","f","i","r","s","t",")","b">>,
     spans |-> {[from |-> 1, to |-> 31]}],
    [text  |-> <<"[","]","(","h","t","t","p","s",":","/","/","b",".","i","o","/","r","e","a","d","-","m","e","-","f","i","r","s","t",")","[","]","(","h","t","t","p","s",":","/","/","b",".","i","o","/","r","e","a","d","-","m","e","-","f","i","r","s","t",")">>,
     spans |-> {[from |-> 0, to |-> 30], [from |-> 30, to |-> 60]}],
    [text  |-> <<"[","a","]","(","h","t","t","p","s",":","/","/","b",".","i","o","/","r","e","a","d","-","m","e","-","f","i","r","s","t",")">>,
     spans |-> {}] }

\* the scan of the documents of the model, computed once
Scanned == [ text \in { d.text : d \in EditorDocs } |-> Matches(text, 1) ]

\* the offsets at the ends of the links of a document and next to them on
\* the outside, and the start of the document
Offsets(doc) ==
  { p \in UNION { {s.from - 1, s.from, s.to, s.to + 1} : s \in doc.spans } \cup {0} :
      p >= 0 /\ p <= Len(doc.text) }

\* a cursor
Cursor(p) == [from |-> p, to |-> p]

\* the selections of a document: one range, or a cursor at the start of
\* the document and a second cursor
Selections(doc) ==
  { {[from |-> a, to |-> b]} : a, b \in Offsets(doc) }
    \cup { {Cursor(0), Cursor(b)} : b \in Offsets(doc) }

\* the selections whose ranges have their ends in order
EditorSelections(doc) == { sel \in Selections(doc) : \A r \in sel : r.from <= r.to }

\* a cursorInRange that leaves out the two ends of the range
cursorInRangeExclusive(selection, from, to) ==
  \E range \in selection : range.from > from /\ range.to < to

cursorInRange(selection, from, to) ==
  \E range \in selection : range.from >= from /\ range.to <= to

\* the links that the loops of buildDecorations and rebuildFromKnown do
\* not skip
Shown(links, selection) ==
  SelectSeq(links, LAMBDA l : ~cursorInRange(selection, l.from, l.to))

\* decorations.push(Decoration.replace({widget}).range(from, to)) for the
\* links with cached metadata
Decorations(links, selection) ==
  { [from |-> l.from, to |-> l.to, url |-> l.url, meta |-> getCachedMetadata(l.url)] :
      l \in { k \in Range(Shown(links, selection)) : getCachedMetadata(k.url) # Undefined } }

\* the links without cached metadata, for which the loop calls
\* fetchLinkMetadata(url).then(onFetchComplete), in the order of the loop
Uncached(links, selection) ==
  SelectSeq(Shown(links, selection), LAMBDA l : getCachedMetadata(l.url) = Undefined)

\* the end of update or of the constructor: when the loop has made its
\* calls, its result is assigned to this.decorations and this.knownLinks
Assigned(e) ==
  IF e.toFetch = <<>>
  THEN [e EXCEPT !.decorations = e.built.decorations, !.knownLinks = e.built.links]
  ELSE e

\* the editor runs a handler to its end: no callback runs while a loop has
\* calls to make
EditorIdle == editor.opened => editor.toFetch = <<>>

\* the constructor of the ViewPlugin, for an editor opened on a document
\* with a selection: buildDecorations
constructor(doc, selection) ==
  /\ loaded
  /\ ~editor.opened
  /\ Len(calls) + Len(Uncached(Scanned[doc.text], selection)) <= MaxCalls
  /\ editor' = Assigned(
       [opened |-> TRUE, doc |-> doc, selection |-> selection,
        decorations |-> {}, knownLinks |-> <<>>,
        hasPendingFetches |-> FALSE, dispatchTimer |-> FALSE, timers |-> 0,
        searchDebounce |-> FALSE, destroyed |-> FALSE,
        toFetch |-> Uncached(Scanned[doc.text], selection),
        built |-> [decorations |-> Decorations(Scanned[doc.text], selection),
                   links |-> Scanned[doc.text], by |-> "buildDecorations"],
        callbacks |-> {}])
  /\ UNCHANGED <<engine, argument, returned, view>>

\* update for a transaction that changes the document or moves the
\* selection: the full rescan
update(doc, selection) ==
  /\ editor.opened
  /\ ~editor.destroyed
  /\ editor.toFetch = <<>>
  /\ doc # editor.doc \/ selection # editor.selection
  /\ Len(calls) + Len(Uncached(Scanned[doc.text], selection)) <= MaxCalls
  /\ editor' = Assigned(
       [editor EXCEPT
          !.doc = doc,
          !.selection = selection,
          !.hasPendingFetches = FALSE,
          !.toFetch = Uncached(Scanned[doc.text], selection),
          !.built = [decorations |-> Decorations(Scanned[doc.text], selection),
                     links |-> Scanned[doc.text], by |-> "buildDecorations"]])
  /\ UNCHANGED <<engine, argument, returned, view>>

\* fetchLinkMetadata(url).then(onFetchComplete) for the next uncached link
\* of the loop
editorFetch ==
  /\ editor.opened
  /\ editor.toFetch # <<>>
  /\ fetchLinkMetadataCall(Head(editor.toFetch).url)
  /\ editor' = Assigned(
       [editor EXCEPT !.toFetch = Tail(@), !.callbacks = @ \cup {Len(calls) + 1}])
  /\ UNCHANGED <<argument, returned, view>>

\* a scheduleDispatch that starts a timer for every completion
onFetchCompleteEveryTime(c) ==
  /\ editor.opened
  /\ editor.toFetch = <<>>
  /\ c \in editor.callbacks
  /\ calls[c].state = "fulfilled"
  /\ editor' = [editor EXCEPT
       !.callbacks = @ \ {c},
       !.hasPendingFetches = TRUE,
       !.dispatchTimer = TRUE,
       !.timers = @ + 1]
  /\ UNCHANGED <<engine, argument, returned, view>>

\* onFetchComplete, when the promise of call c is fulfilled:
\* scheduleDispatch sets hasPendingFetches and starts the timer unless one
\* is pending; timers counts the timeouts that were set and have not fired
onFetchComplete(c) ==
  /\ editor.opened
  /\ editor.toFetch = <<>>
  /\ c \in editor.callbacks
  /\ calls[c].state = "fulfilled"
  /\ editor' = [editor EXCEPT
       !.callbacks = @ \ {c},
       !.hasPendingFetches = TRUE,
       !.dispatchTimer = TRUE,
       !.timers = IF editor.dispatchTimer THEN @ ELSE @ + 1]
  /\ UNCHANGED <<engine, argument, returned, view>>

\* view.dispatch() with an empty transaction, answered by update: the
\* rebuild from the known links when a fetch completed or the search
\* changed.  The view does not update a plugin that it has destroyed.
dispatch(e, searchNeedsRebuild) ==
  IF ~e.destroyed /\ (e.hasPendingFetches \/ searchNeedsRebuild)
  THEN Assigned(
         [e EXCEPT
            !.hasPendingFetches = FALSE,
            !.toFetch = Uncached(e.knownLinks, e.selection),
            !.built = [decorations |-> Decorations(e.knownLinks, e.selection),
                       links |-> e.knownLinks, by |-> "rebuildFromKnown"]])
  ELSE e

\* the calls of fetchLinkMetadata that a dispatch makes
Refetched(e, searchNeedsRebuild) ==
  IF ~e.destroyed /\ (e.hasPendingFetches \/ searchNeedsRebuild)
  THEN Uncached(e.knownLinks, e.selection)
  ELSE <<>>

\* a timeout of scheduleDispatch fires: dispatchTimer = null, then
\* view.dispatch()
dispatchTimer ==
  /\ editor.opened
  /\ editor.toFetch = <<>>
  /\ editor.timers > 0
  /\ Len(calls) + Len(Refetched(editor, FALSE)) <= MaxCalls
  /\ editor' = dispatch([editor EXCEPT !.dispatchTimer = FALSE, !.timers = @ - 1], FALSE)
  /\ UNCHANGED <<engine, argument, returned, view>>

\* scheduleSearchRebuild, called for an event of the search input or when
\* the search panel appears or goes: the timeout is started anew
scheduleSearchRebuild ==
  /\ editor.opened
  /\ ~editor.destroyed
  /\ editor.toFetch = <<>>
  /\ editor' = [editor EXCEPT !.searchDebounce = TRUE]
  /\ UNCHANGED <<engine, argument, returned, view>>

\* the timeout of scheduleSearchRebuild fires: searchDebounce = null,
\* searchNeedsRebuild = true, then view.dispatch(); the query of the search
\* panel is empty, so that no link holds the selected match
searchDebounce ==
  /\ editor.opened
  /\ editor.toFetch = <<>>
  /\ editor.searchDebounce
  /\ Len(calls) + Len(Refetched(editor, TRUE)) <= MaxCalls
  /\ editor' = dispatch([editor EXCEPT !.searchDebounce = FALSE], TRUE)
  /\ UNCHANGED <<engine, argument, returned, view>>

\* destroy(): the observer and the listeners of the search input are
\* removed and the timeout of scheduleSearchRebuild is cleared
destroy ==
  /\ editor.opened
  /\ ~editor.destroyed
  /\ editor.toFetch = <<>>
  /\ editor' = [editor EXCEPT !.destroyed = TRUE, !.searchDebounce = FALSE]
  /\ UNCHANGED <<engine, argument, returned, view>>

EditorCallbacks == IF editor.opened THEN editor.callbacks ELSE {}

\* the document of the editor
EditorDoc == IF editor.opened THEN {editor.doc} ELSE {}

\* the program with one Live Preview editor: the user moves the selection
\* in the document, or edits the document, which leaves a cursor
NextLive ==
  \/ onload(MaxLimit)
  \/ \E doc \in EditorDocs : \E selection \in EditorSelections(doc) : constructor(doc, selection)
  \/ \E doc \in EditorDoc : \E selection \in EditorSelections(doc) : update(doc, selection)
  \/ \E doc \in EditorDocs \ EditorDoc : \E p \in Offsets(doc) : update(doc, {Cursor(p)})
  \/ editorFetch
  \/ \E c \in EditorCallbacks : onFetchComplete(c)
  \/ dispatchTimer
  \/ \E r \in Rids : EditorIdle /\ doFetchStart(r)
  \/ \E r \in Rids : \E response \in ViewResponses : EditorIdle /\ doFetchResponse(r, response)
  \/ \E r \in Rids : EditorIdle /\ releaseSlot(r)
  \/ \E r \in Rids : EditorIdle /\ thenHandler(r)
  \/ \E r \in Rids : EditorIdle /\ catchHandler(r)

SpecLive == Init /\ [][NextLive]_vars

\* the program with one Live Preview editor that is closed at some time;
\* the user opens and closes the search panel and types in it
NextDestroy ==
  \/ onload(MaxLimit)
  \/ \E doc \in EditorDocs : constructor(doc, {Cursor(0)})
  \/ editorFetch
  \/ \E c \in EditorCallbacks : onFetchComplete(c)
  \/ dispatchTimer
  \/ scheduleSearchRebuild
  \/ searchDebounce
  \/ destroy
  \/ \E r \in Rids : EditorIdle /\ doFetchStart(r)
  \/ \E r \in Rids : \E response \in ViewResponses : EditorIdle /\ doFetchResponse(r, response)
  \/ \E r \in Rids : EditorIdle /\ releaseSlot(r)
  \/ \E r \in Rids : EditorIdle /\ thenHandler(r)
  \/ \E r \in Rids : EditorIdle /\ catchHandler(r)

SpecDestroy == Init /\ [][NextDestroy]_vars

(***************************************************************************)
(* Live Preview left alone: after the editor is opened there is no change  *)
(* of the document, the viewport, the selection or the search.  A promise  *)
(* that has settled and whose callbacks have run is referred to by         *)
(* nothing, so the records of such calls are dropped; the numbering of     *)
(* the calls starts again.  A callback that is ready runs, a timeout that  *)
(* was set fires, and a request that was issued settles.                   *)
(***************************************************************************)
\* the records of the settled calls are dropped when no call is pending
\* and no callback waits
collectSettled ==
  /\ calls # <<>>
  /\ EditorIdle
  /\ EditorCallbacks = {}
  /\ \A r \in Rids : resolutions[r].pc = "done"
  /\ \A i \in 1..Len(calls) : calls[i].state # "pending"
  /\ calls' = <<>>
  /\ resolutions' = <<>>
  /\ UNCHANGED <<maxConcurrent, activeCount, waiting, cache, inflight, loaded, argument, returned, ui>>

\* a step of the chain of resolution r, the settling of its request included
chainStep(r) ==
  /\ EditorIdle
  /\ \/ doFetchStart(r)
     \/ \E response \in ViewResponses : doFetchResponse(r, response)
     \/ releaseSlot(r)
     \/ thenHandler(r)
     \/ catchHandler(r)

NextRetry ==
  \/ onload(MaxLimit)
  \/ \E doc \in EditorDocs : \E selection \in EditorSelections(doc) : constructor(doc, selection)
  \/ editorFetch
  \/ \E c \in EditorCallbacks : onFetchComplete(c)
  \/ dispatchTimer
  \/ \E r \in Rids : chainStep(r)
  \/ collectSettled

SpecRetry ==
  /\ Init
  /\ [][NextRetry]_vars
  /\ WF_vars(editorFetch)
  /\ WF_vars(\E c \in EditorCallbacks : onFetchComplete(c))
  /\ WF_vars(dispatchTimer)
  /\ WF_vars(collectSettled)
  /\ \A r \in 1..MaxCalls : WF_vars(r \in Rids /\ chainStep(r))

(***************************************************************************)
(* The program with its scheduling.  A promise callback that is ready      *)
(* runs: the job queue of the runtime is first in, first out.  A request   *)
(* that was issued is answered or fails: this is the assumption under      *)
(* which the progress of the engine is stated.  Nothing obliges a caller   *)
(* to call fetchLinkMetadata or the user to move the slider.               *)
(***************************************************************************)
\* a request of resolution r settles
requestSettles(r) ==
  \/ \E response \in OembedResponses : doFetchOembed(r, response)
  \/ \E response \in ViewResponses : doFetchResponse(r, response)

\* the callbacks of the chain of resolution r run
Scheduling(r) ==
  /\ WF_vars(r \in Rids /\ doFetchStart(r))
  /\ WF_vars(r \in Rids /\ releaseSlot(r))
  /\ WF_vars(r \in Rids /\ thenHandler(r))
  /\ WF_vars(r \in Rids /\ catchHandler(r))

\* the program with callers of a page and of a video
NextFair ==
  \/ \E n \in Limits : onload(n)
  \/ \E n \in Limits : setMaxConcurrent(n)
  \/ \E raw \in {UrlSlug, UrlVideo} : fetchLinkMetadata(raw)
  \/ \E r \in Rids : doFetchStart(r)
  \/ \E r \in Rids : requestSettles(r)
  \/ \E r \in Rids : releaseSlot(r)
  \/ \E r \in Rids : thenHandler(r)
  \/ \E r \in Rids : catchHandler(r)

SpecFair ==
  /\ Init
  /\ [][NextFair]_vars
  /\ \A r \in 1..MaxCalls : Scheduling(r) /\ WF_vars(r \in Rids /\ requestSettles(r))

(***************************************************************************)
(* EMPTY_LINK_RE applied on its own, as matchUrl of the tests does: the    *)
(* first capture group of the first match, or null.  An input is spelled   *)
(* from its parts: what precedes the link, the display text, the scheme,   *)
(* the rest of the URL and what follows the link.                          *)
(***************************************************************************)
LinkTexts == { <<>>, <<"c","l","i","c","k">> }

LinkSchemes == { SchemeHttps, SchemeHttp, <<"f","t","p",":","/","/">>, <<>> }

LinkRests ==
  { <<"e","x","a","m","p","l","e",".","c","o","m","/","p","a","t","h">>,
    <<"e","n",".","w","i","k","i","p","e","d","i","a",".","o","r","g","/","w","i","k","i","/","O","b","s","i","d","i","a","n","_","(","s","o","f","t","w","a","r","e",")">>,
    <<"e","x","a","m","p","l","e",".","c","o","m","/","a","(","b",")","c">>,
    <<"e","x","a","m","p","l","e",".","c","o","m">> }

LinkBefores == { <<>>, <<"s","e","e"," ">> }

LinkAfters == { <<>>, <<" ","n","o","w">> }

\* the inputs, each with the URL of its link
LinkInputs ==
  { [input  |-> before \o <<"[">> \o text \o <<"]","(">> \o scheme \o rest \o <<")">> \o after,
     text   |-> text,
     scheme |-> scheme,
     url    |-> scheme \o rest] :
      before \in LinkBefores, text \in LinkTexts, scheme \in LinkSchemes,
      rest \in LinkRests, after \in LinkAfters }

NoMatch == [match |-> FALSE]

\* EMPTY_LINK_RE.exec(input) from index i on: m[1] of the first match
RECURSIVE exec(_, _)
exec(input, i) ==
  IF i > Len(input) THEN NoMatch
  ELSE IF MatchEnd(input, i) # 0
  THEN [match |-> TRUE, group |-> SubSeq(input, i + 3, MatchEnd(input, i) - 1)]
  ELSE exec(input, i + 1)

\* matchUrl(input): lastIndex = 0, then exec
matchUrl(input) == exec(input, 1)

InitEmptyLink ==
  /\ ModuleLoad
  /\ argument \in LinkInputs
  /\ returned = NotCalled

CallMatchUrl ==
  /\ returned = NotCalled
  /\ returned' = [called |-> TRUE, val |-> matchUrl(argument.input)]
  /\ UNCHANGED <<engine, argument, ui>>

SpecEmptyLink == InitEmptyLink /\ [][CallMatchUrl]_vars

(***************************************************************************)
(* normalizeUrl applied on its own.  The argument is spelled from a        *)
(* scheme, the labels of a hostname, a path and a query or fragment; each  *)
(* part may be missing.                                                    *)
(***************************************************************************)
Schemes == { <<>>, SchemeHttps, SchemeHttp, <<"H","T","T","P","S",":","/","/">> }

HostLabels == { <<"w","w","w">>, <<"e","x","a","m","p","l","e">>, <<"c","o","m">> }

NotAUrl == <<"n","o","t"," ","a"," ","u","r","l">>

Paths == { <<>>, <<"/">>, <<"/","p"," ","q">>, NotAUrl }

Rests == { <<>>, <<"?","q","=","1">>, <<"#","f">> }

Spellings ==
  [ scheme : Schemes,
    labels : UNION { [1..n -> HostLabels] : n \in 0..MaxLabels },
    path   : Paths,
    rest   : Rests ]

\* the string a spelling stands for
Spelled(a) == a.scheme \o Join(a.labels, <<".">>) \o a.path \o a.rest

InitNormalizeUrl ==
  /\ ModuleLoad
  /\ argument \in Spellings
  /\ returned = NotCalled

CallNormalizeUrl ==
  /\ returned = NotCalled
  /\ returned' = [called |-> TRUE, val |-> normalizeUrl(Spelled(argument))]
  /\ UNCHANGED <<engine, argument, ui>>

SpecNormalizeUrl == InitNormalizeUrl /\ [][CallNormalizeUrl]_vars

(***************************************************************************)
(* extractUrlTitle applied on its own.  The argument is a base followed by *)
(* path segments.  A segment is listed with what a reader of the URL sees  *)
(* in it: its words, the length of the segment up to the first "?", "=" or *)
(* "&" (after decoding), and its words capitalised and joined by spaces.   *)
(***************************************************************************)
MaxSegments == 2

PathSegments ==
  { [text |-> <<"e","n">>,
     words |-> <<<<"e","n">>>>, cleaned |-> 2,
     title |-> <<>>],
    [text |-> <<"r","e","a","d","-","m","e","-","f","i","r","s","t">>,
     words |-> <<<<"r","e","a","d">>, <<"m","e">>, <<"f","i","r","s","t">>>>, cleaned |-> 13,
     title |-> <<"R","e","a","d"," ","M","e"," ","F","i","r","s","t">>],
    [text |-> <<"h","e","l","l","o","_","b","i","g","_","w","o","r","l","d">>,
     words |-> <<<<"h","e","l","l","o">>, <<"b","i","g">>, <<"w","o","r","l","d">>>>, cleaned |-> 15,
     title |-> <<"H","e","l","l","o"," ","B","i","g"," ","W","o","r","l","d">>],
    [text |-> <<"m","o","d","e","l","-","c","h","e","c","k","e","r">>,
     words |-> <<<<"m","o","d","e","l">>, <<"c","h","e","c","k","e","r">>>>, cleaned |-> 13,
     title |-> <<"M","o","d","e","l"," ","C","h","e","c","k","e","r">>],
    [text |-> <<"s","h","o","r","t","-","o","n","e">>,
     words |-> <<<<"s","h","o","r","t">>, <<"o","n","e">>>>, cleaned |-> 9,
     title |-> <<"S","h","o","r","t"," ","O","n","e">>],
    [text |-> <<"m","y","-","g","r","e","a","t","%","2","0","a","r","t","i","c","l","e">>,
     words |-> <<<<"m","y">>, <<"g","r","e","a","t">>, <<"a","r","t","i","c","l","e">>>>, cleaned |-> 16,
     title |-> <<"M","y"," ","G","r","e","a","t"," ","A","r","t","i","c","l","e">>],
    [text |-> <<"2","0","2","4","-","r","e","p","o","r","t","=","a","-","m","u","c","h","-","l","o","n","g","e","r","-","t","a","i","l">>,
     words |-> <<<<"2","0","2","4">>, <<"r","e","p","o","r","t">>>>, cleaned |-> 11,
     title |-> <<"2","0","2","4"," ","R","e","p","o","r","t">>],
    [text |-> <<"t","l","a","-","-","p","l","u","s","_","_","t","o","o","l","s">>,
     words |-> <<<<"t","l","a">>, <<"p","l","u","s">>, <<"t","o","o","l","s">>>>, cleaned |-> 16,
     title |-> <<"T","l","a"," ","P","l","u","s"," ","T","o","o","l","s">>],
    [text |-> <<"%","E","0">>,
     words |-> <<>>, cleaned |-> 0,
     title |-> <<>>] }

UrlBases == { <<"h","t","t","p","s",":","/","/","b",".","i","o">>, NotAUrl }

SegmentedUrls ==
  [ base : UrlBases, segments : UNION { [1..n -> PathSegments] : n \in 0..MaxSegments } ]

\* the string of a base and its segments
Segmented(a) ==
  a.base \o Concat([ i \in 1..Len(a.segments) |-> <<"/">> \o a.segments[i].text ])

InitExtractUrlTitle ==
  /\ ModuleLoad
  /\ argument \in SegmentedUrls
  /\ returned = NotCalled

CallExtractUrlTitle ==
  /\ returned = NotCalled
  /\ returned' = [called |-> TRUE, val |-> extractUrlTitle(Segmented(argument))]
  /\ UNCHANGED <<engine, argument, ui>>

SpecExtractUrlTitle == InitExtractUrlTitle /\ [][CallExtractUrlTitle]_vars

(***************************************************************************)
(* extractDocTitle applied on its own.  The text of the title element is   *)
(* spelled from white space, a first part without separator, a tail that   *)
(* begins with a separator, and white space; the en dash is written        *)
(* <endash>.  A document without title element has the empty text.         *)
(***************************************************************************)
FirstParts ==
  { <<>>,
    <<"T","i","t","l","e">>,
    <<"G","i","t","H","u","b"," ","-"," ","c","h","a","r","m","b","r","a","c","e","l","e","t","/","c","r","u","s","h",":"," ","D","e","s","c","r","i","p","t","i","o","n">>,
    <<"N","o","t","e","s"," ","<endash>"," ","2","0","2","4">>,
    <<"a","-","b">>,
    <<"N","o"," ","s","e","p","a","r","a","t","o","r">> }

SeparatedTails ==
  { <<>>,
    <<" ","|"," ","S","i","t","e">>,
    <<"<middot>","S","i","t","e"," ","<emdash>"," ","M","o","r","e">>,
    <<" ","<emdash>"," ","B","l","o","g"," ","|"," ","x">> }

TitleSpellings ==
  [ before : { <<>>, <<" ">> }, first : FirstParts, tail : SeparatedTails,
    after : { <<>>, <<" ">> } ]

\* the document whose title element has the text of a spelling
Titled(a) == [title |-> a.before \o a.first \o a.tail \o a.after]

InitExtractDocTitle ==
  /\ ModuleLoad
  /\ argument \in TitleSpellings
  /\ returned = NotCalled

CallExtractDocTitle ==
  /\ returned = NotCalled
  /\ returned' = [called |-> TRUE, val |-> extractDocTitle(Titled(argument))]
  /\ UNCHANGED <<engine, argument, ui>>

SpecExtractDocTitle == InitExtractDocTitle /\ [][CallExtractDocTitle]_vars

(***************************************************************************)
(* fetchFavicon applied on its own, to page URLs that parse and that do    *)
(* not and to documents with each combination of favicon links.  Each href *)
(* is written down with the absolute URL it stands for on FaviconPage.     *)
(***************************************************************************)
FaviconPage == <<"h","t","t","p","s",":","/","/","b",".","i","o","/","a","/","b">>

FaviconHrefs ==
  { [href |-> <<>>, onPage |-> <<>>],
    [href |-> <<"/","i",".","p","n","g">>, onPage |-> <<"h","t","t","p","s",":","/","/","b",".","i","o","/","i",".","p","n","g">>],
    [href |-> <<"i","m","g","/","i",".","p","n","g">>, onPage |-> <<"h","t","t","p","s",":","/","/","b",".","i","o","/","a","/","i","m","g","/","i",".","p","n","g">>],
    [href |-> <<"h","t","t","p","s",":","/","/","c","d","n",".","i","o","/","f",".","i","c","o">>, onPage |-> <<"h","t","t","p","s",":","/","/","c","d","n",".","i","o","/","f",".","i","c","o">>],
    [href |-> <<"h","t","t","p","s",":","/","/">>, onPage |-> <<>>] }

FaviconPages ==
  { [url |-> FaviconPage, parses |-> TRUE, favicon |-> <<"h","t","t","p","s",":","/","/","b",".","i","o","/","f","a","v","i","c","o","n",".","i","c","o">>],
    [url |-> NotAUrl, parses |-> FALSE, favicon |-> <<>>] }

\* a document is its three favicon links; hasDoc is FALSE for a response
\* that is not HTML, where fetchFavicon receives null
FaviconArguments ==
  [page : FaviconPages, hasDoc : {TRUE}, links : [1..3 -> FaviconHrefs]]
    \cup [page : FaviconPages, hasDoc : {FALSE}, links : {<<>>}]

LinkHrefs(a) == [ i \in 1..Len(a.links) |-> a.links[i].href ]

InitFetchFavicon ==
  /\ ModuleLoad
  /\ argument \in FaviconArguments
  /\ returned = NotCalled

CallFetchFavicon ==
  /\ returned = NotCalled
  /\ returned' = [called |-> TRUE,
                  val |-> fetchFaviconChars(argument.page.url, LinkHrefs(argument))]
  /\ UNCHANGED <<engine, argument, ui>>

SpecFetchFavicon == InitFetchFavicon /\ [][CallFetchFavicon]_vars

(***************************************************************************)
(* The extractors and the HTML path of doFetch applied on their own, to    *)
(* documents with and without each element and to page URLs of each kind.  *)
(***************************************************************************)
TitleTexts ==
  { <<>>,
    <<" ","D","o","c"," ","|"," ","S","i","t","e"," ">>,
    <<"G","i","t","H","u","b"," ","-"," ","o","w","n","e","r","/","r","e","p","o",":"," ","S","o","m","e"," ","d","e","s","c","r","i","p","t","i","o","n">>,
    <<"|"," ","S","i","t","e">> }

OgTitleContents ==
  { <<>>,
    <<"O","g">>,
    <<"o","b","s","i","d","i","a","n","m","d","/","o","b","s","i","d","i","a","n","-","a","p","i",":"," ","T","h","e"," ","O","b","s","i","d","i","a","n"," ","A","P","I">>,
    <<" "," ">> }

Documents ==
  [ title      : TitleTexts,
    ogTitle    : OgTitleContents,
    ogSiteName : { <<>>, <<"S","i","t","e">> },
    author     : { <<>>, <<" ","A","n","n"," ">> },
    icon       : { <<>>, <<"/","i",".","p","n","g">> },
    shortcutIcon   : { <<>> },
    appleTouchIcon : { <<>> } ]

\* a page whose path has no slug-like segment
PageUrlNoSlug == <<"h","t","t","p","s",":","/","/","b",".","i","o","/","x">>

PageUrlGithub == <<"h","t","t","p","s",":","/","/","g","i","t","h","u","b",".","c","o","m","/","o","/","r">>

PageUrlRedditPost ==
  <<"h","t","t","p","s",":","/","/","w","w","w",".","r","e","d","d","i","t",".","c","o","m","/","r","/","t","l","a","/","c","o","m","m","e","n","t","s","/","1","/","m","o","d","e","l","-","c","h","e","c","k","i","n","g">>

PageUrlRedditSub == <<"h","t","t","p","s",":","/","/","w","w","w",".","r","e","d","d","i","t",".","c","o","m","/","r","/","t","l","a">>

PageUrls ==
  { Chars[UrlSlug], PageUrlNoSlug, Chars[UrlBadEscape],
    PageUrlGithub, PageUrlRedditPost, PageUrlRedditSub }

InitExtractGithubTitle ==
  /\ ModuleLoad
  /\ argument \in Documents
  /\ returned = NotCalled

CallExtractGithubTitle ==
  /\ returned = NotCalled
  /\ returned' = [called |-> TRUE, val |-> extractGithubTitle(argument)]
  /\ UNCHANGED <<engine, argument, ui>>

SpecExtractGithubTitle == InitExtractGithubTitle /\ [][CallExtractGithubTitle]_vars

InitDoFetchHtml ==
  /\ ModuleLoad
  /\ argument \in [url : PageUrls, doc : Documents]
  /\ returned = NotCalled

\* doFetch(url) when no oEmbed pattern matches and requestUrl answers with
\* the HTML document doc
CallDoFetchHtml ==
  /\ returned = NotCalled
  /\ returned' = [called |-> TRUE,
                  meta   |-> doFetchPageChars(argument.url,
                                              [kind |-> "html", doc |-> argument.doc])]
  /\ UNCHANGED <<engine, argument, ui>>

SpecDoFetchHtml == InitDoFetchHtml /\ [][CallDoFetchHtml]_vars

(***************************************************************************)
(* fetchOembed applied on its own, to URLs that match each pattern and to  *)
(* URLs that match none, with each kind of response.                       *)
(***************************************************************************)
YoutubeUrls ==
  { <<"h","t","t","p","s",":","/","/","w","w","w",".","y","o","u","t","u","b","e",".","c","o","m","/","w","a","t","c","h","?","v","=","1">>,
    <<"h","t","t","p","s",":","/","/","y","o","u","t","u","b","e",".","c","o","m","/","w","a","t","c","h","?","v","=","1">>,
    <<"h","t","t","p",":","/","/","y","o","u","t","u","b","e",".","c","o","m","/","w","a","t","c","h","?","v","=","1">>,
    <<"h","t","t","p","s",":","/","/","y","o","u","t","u",".","b","e","/","x">>,
    <<"h","t","t","p",":","/","/","y","o","u","t","u",".","b","e","/","x">> }

VimeoUrls ==
  { <<"h","t","t","p","s",":","/","/","v","i","m","e","o",".","c","o","m","/","1">>,
    <<"h","t","t","p","s",":","/","/","w","w","w",".","v","i","m","e","o",".","c","o","m","/","1">> }

OtherUrls ==
  { <<"h","t","t","p","s",":","/","/","v","i","m","e","o",".","c","o","m","/","a","b","o","u","t">>,
    <<"h","t","t","p","s",":","/","/","b",".","i","o","/","x">>,
    <<"h","t","t","p","s",":","/","/","m",".","y","o","u","t","u","b","e",".","c","o","m","/","w","a","t","c","h","?","v","=","1">>,
    <<"h","t","t","p","s",":","/","/","w","w","w",".","y","o","u","t","u",".","b","e","/","x">>,
    <<"f","t","p",":","/","/","y","o","u","t","u",".","b","e","/","x">>,
    <<"h","t","t","p","s",":","/","/","y","o","u","t","u","b","e",".","c","o","m","/">>,
    <<"x"," ","h","t","t","p","s",":","/","/","y","o","u","t","u",".","b","e","/","x">> }

OembedBodies ==
  { [kind |-> "throw"],
    [kind |-> "json", title |-> <<>>, author |-> <<>>],
    [kind |-> "json", title |-> <<" "," ">>, author |-> <<>>],
    [kind |-> "json", title |-> <<"C","l","i","p">>, author |-> <<>>],
    [kind |-> "json", title |-> <<" ","C","l","i","p"," ">>, author |-> <<" ","B","o","b"," ">>] }

InitFetchOembed ==
  /\ ModuleLoad
  /\ argument \in [url : YoutubeUrls \cup VimeoUrls \cup OtherUrls, response : OembedBodies]
  /\ returned = NotCalled

CallFetchOembed ==
  /\ returned = NotCalled
  /\ returned' = [called |-> TRUE] @@ fetchOembedChars(argument.url, argument.response)
  /\ UNCHANGED <<engine, argument, ui>>

SpecFetchOembed == InitFetchOembed /\ [][CallFetchOembed]_vars

(***************************************************************************)
(* The pattern test of fetchOembed on the URL that fetchLinkMetadata hands *)
(* to doFetch, which is the normalized one.  Each raw URL is written down  *)
(* with the pattern it matches as it stands and with whether its path has  *)
(* a dot segment.                                                          *)
(***************************************************************************)
MatchingRests ==
  {
    [rest |-> <<"y","o","u","t","u","b","e",".","c","o","m","/","w","a","t","c","h">>, pattern |-> 1, dots |-> FALSE],
    [rest |-> <<"y","o","u","t","u","b","e",".","c","o","m","/","w","a","t","c","h","?","v","=","a">>, pattern |-> 1, dots |-> FALSE],
    [rest |-> <<"y","o","u","t","u","b","e",".","c","o","m","/","w","a","t","c","h","/">>, pattern |-> 1, dots |-> FALSE],
    [rest |-> <<"y","o","u","t","u","b","e",".","c","o","m","/","w","a","t","c","h","/",".",".","/","x">>, pattern |-> 1, dots |-> TRUE],
    [rest |-> <<"y","o","u","t","u","b","e",".","c","o","m","/","w","a","t","c","h","/",".">>, pattern |-> 1, dots |-> TRUE],
    [rest |-> <<"y","o","u","t","u","b","e",".","c","o","m","/","w","a","t","c","h","l","a","t","e","r","#","t">>, pattern |-> 1, dots |-> FALSE],
    [rest |-> <<"w","w","w",".","y","o","u","t","u","b","e",".","c","o","m","/","w","a","t","c","h">>, pattern |-> 1, dots |-> FALSE],
    [rest |-> <<"w","w","w",".","y","o","u","t","u","b","e",".","c","o","m","/","w","a","t","c","h","?","v","=","a">>, pattern |-> 1, dots |-> FALSE],
    [rest |-> <<"w","w","w",".","y","o","u","t","u","b","e",".","c","o","m","/","w","a","t","c","h","/">>, pattern |-> 1, dots |-> FALSE],
    [rest |-> <<"w","w","w",".","y","o","u","t","u","b","e",".","c","o","m","/","w","a","t","c","h","/",".",".","/","x">>, pattern |-> 1, dots |-> TRUE],
    [rest |-> <<"w","w","w",".","y","o","u","t","u","b","e",".","c","o","m","/","w","a","t","c","h","/",".">>, pattern |-> 1, dots |-> TRUE],
    [rest |-> <<"w","w","w",".","y","o","u","t","u","b","e",".","c","o","m","/","w","a","t","c","h","l","a","t","e","r","#","t">>, pattern |-> 1, dots |-> FALSE],
    [rest |-> <<"y","o","u","t","u",".","b","e","/">>, pattern |-> 2, dots |-> FALSE],
    [rest |-> <<"y","o","u","t","u",".","b","e","/","x">>, pattern |-> 2, dots |-> FALSE],
    [rest |-> <<"y","o","u","t","u",".","b","e","/","x","/",".",".","/","y">>, pattern |-> 2, dots |-> TRUE],
    [rest |-> <<"y","o","u","t","u",".","b","e","/",".","/","x">>, pattern |-> 2, dots |-> TRUE],
    [rest |-> <<"y","o","u","t","u",".","b","e","/","a"," ","b">>, pattern |-> 2, dots |-> FALSE],
    [rest |-> <<"y","o","u","t","u",".","b","e","/",".",".">>, pattern |-> 2, dots |-> TRUE],
    [rest |-> <<"v","i","m","e","o",".","c","o","m","/","1">>, pattern |-> 3, dots |-> FALSE],
    [rest |-> <<"v","i","m","e","o",".","c","o","m","/","1","2","?","x">>, pattern |-> 3, dots |-> FALSE],
    [rest |-> <<"v","i","m","e","o",".","c","o","m","/","1","/",".",".">>, pattern |-> 3, dots |-> TRUE],
    [rest |-> <<"v","i","m","e","o",".","c","o","m","/","1","/",".",".","/","a">>, pattern |-> 3, dots |-> TRUE],
    [rest |-> <<"v","i","m","e","o",".","c","o","m","/","1","/",".","/","2">>, pattern |-> 3, dots |-> TRUE],
    [rest |-> <<"v","i","m","e","o",".","c","o","m","/","1"," ","2">>, pattern |-> 3, dots |-> FALSE],
    [rest |-> <<"w","w","w",".","v","i","m","e","o",".","c","o","m","/","1">>, pattern |-> 3, dots |-> FALSE],
    [rest |-> <<"w","w","w",".","v","i","m","e","o",".","c","o","m","/","1","2","?","x">>, pattern |-> 3, dots |-> FALSE],
    [rest |-> <<"w","w","w",".","v","i","m","e","o",".","c","o","m","/","1","/",".",".">>, pattern |-> 3, dots |-> TRUE],
    [rest |-> <<"w","w","w",".","v","i","m","e","o",".","c","o","m","/","1","/",".",".","/","a">>, pattern |-> 3, dots |-> TRUE],
    [rest |-> <<"w","w","w",".","v","i","m","e","o",".","c","o","m","/","1","/",".","/","2">>, pattern |-> 3, dots |-> TRUE],
    [rest |-> <<"w","w","w",".","v","i","m","e","o",".","c","o","m","/","1"," ","2">>, pattern |-> 3, dots |-> FALSE] }

MatchingUrls ==
  { [raw |-> scheme \o m.rest, pattern |-> m.pattern, dots |-> m.dots] :
      scheme \in {SchemeHttps, SchemeHttp}, m \in MatchingRests }

InitOembedPattern ==
  /\ ModuleLoad
  /\ argument \in MatchingUrls
  /\ returned = NotCalled

\* fetchLinkMetadata(raw) up to the pattern test of fetchOembed:
\* normalizeUrl, then doFetch(normalized), then pattern.test(url)
CallOembedPattern ==
  /\ returned = NotCalled
  /\ returned' = [called |-> TRUE,
                  val |-> [normalized |-> normalizeUrl(argument.raw),
                           endpoint   |-> OembedEndpoint(normalizeUrl(argument.raw))]]
  /\ UNCHANGED <<engine, argument, ui>>

SpecOembedPattern == InitOembedPattern /\ [][CallOembedPattern]_vars

(***************************************************************************)
(* Vocabulary of the properties.                                           *)
(***************************************************************************)
\* the resolutions of key k that have not settled
Pending(k) == { r \in Rids : resolutions[r].key = k /\ resolutions[r].pc # "done" }

\* the resolutions that hold a slot of the gate
Holding == { r \in Rids : resolutions[r].pc \in {"granted", "oembed", "page", "fetched"} }

\* the number of page requests in a sequence of requests
RECURSIVE PageCount(_)
PageCount(requests) ==
  IF requests = <<>> THEN 0
  ELSE (IF Head(requests) = "page" THEN 1 ELSE 0) + PageCount(Tail(requests))

\* the number of page requests issued for key k so far, over resolutions 1..n
RECURSIVE PageFetchesUpTo(_, _)
PageFetchesUpTo(k, n) ==
  IF n = 0 THEN 0
  ELSE (IF resolutions[n].key = k THEN PageCount(resolutions[n].requests) ELSE 0)
       + PageFetchesUpTo(k, n - 1)

PageFetches(k) == PageFetchesUpTo(k, Len(resolutions))

\* all requests issued for key k so far, by resolution
RequestsFor(k) == [ r \in { q \in Rids : resolutions[q].key = k } |-> resolutions[r].requests ]

\* this step is a call fetchLinkMetadata(raw)
CallOf(raw) == Len(calls') = Len(calls) + 1 /\ calls'[Len(calls')].raw = raw

\* the last resolution started for key k has failed and settled
FailedAndSettled(k) ==
  \E r \in Rids :
    /\ resolutions[r].key = k
    /\ resolutions[r].pc = "done"
    /\ ~resolutions[r].result.ok
    /\ \A q \in (r + 1)..Len(resolutions) : resolutions[q].key # k

(***************************************************************************)
(* C1.  With the limit fixed (set once, by onload), the number of          *)
(* resolutions holding a slot, activeCount, never exceeds the limit, and   *)
(* so at most that many page requests are outstanding.                     *)
(***************************************************************************)
C1_ConcurrencyBound ==
  /\ activeCount <= maxConcurrent
  /\ Cardinality(Holding) <= maxConcurrent
  /\ Cardinality({ r \in Rids : resolutions[r].pc = "page" }) <= maxConcurrent

\* the gate is saturated by page fetches and a further resolution waits
C1_Witness ==
  /\ Cardinality({ r \in Rids : resolutions[r].pc = "page" }) = maxConcurrent
  /\ activeCount = maxConcurrent
  /\ waiting # <<>>

(***************************************************************************)
(* C2.  At most one resolution per normalized URL is pending at any time;  *)
(* a call made while one is pending starts no new one, and all callers     *)
(* attached to a resolution are fulfilled with the identical object once   *)
(* it has settled.                                                         *)
(***************************************************************************)
C2_Deduplicated ==
  /\ \A k \in Keys : Cardinality(Pending(k)) <= 1
  /\ \A i, j \in 1..Len(calls) :
       (i < j /\ calls[i].rid # 0 /\ calls[i].rid = calls[j].rid
          /\ resolutions[calls[i].rid].pc = "done")
       => /\ calls[i].state = "fulfilled"
          /\ calls[j].state = "fulfilled"
          /\ calls[i].value = calls[j].value

(***************************************************************************)
(* C3.  Every cache entry was written by a resolution of that key whose    *)
(* doFetch returned without an exception, and holds what it returned; a    *)
(* resolution that ended in an exception never wrote the cache.            *)
(***************************************************************************)
C3_CacheOnlySuccess ==
  \A k \in Keys :
    cache[k] # Undefined =>
      /\ cache[k].oid \in Rids
      /\ resolutions[cache[k].oid].key = k
      /\ resolutions[cache[k].oid].pc = "done"
      /\ resolutions[cache[k].oid].result.ok
      /\ cache[k].title = resolutions[cache[k].oid].result.title

\* a key whose first resolution failed and whose second one was cached
C3_Witness ==
  \E k \in Keys : \E r \in Rids :
    /\ cache[k] # Undefined
    /\ resolutions[r].key = k
    /\ resolutions[r].pc = "done"
    /\ ~resolutions[r].result.ok

(***************************************************************************)
(* C4.  After the resolution of u failed and settled, getCachedMetadata(u) *)
(* is undefined and u is neither cached nor in flight, so that the next    *)
(* fetchLinkMetadata(u) starts a fresh resolution, and every resolution    *)
(* that got its slot and started doFetch has issued a network request.     *)
(***************************************************************************)
C4_FailureState ==
  /\ \A raw \in RawUrls :
       FailedAndSettled(Normalized[raw]) =>
         /\ getCachedMetadata(raw) = Undefined
         /\ inflight[Normalized[raw]] = 0
  /\ \A r \in Rids :
       resolutions[r].pc \notin {"queued", "granted"} => resolutions[r].requests # <<>>

C4_RetryStep ==
  \A raw \in RawUrls :
    (CallOf(raw) /\ FailedAndSettled(Normalized[raw])) =>
      /\ Len(resolutions') = Len(resolutions) + 1
      /\ resolutions'[Len(resolutions')].key = Normalized[raw]
      /\ resolutions'[Len(resolutions')].pc \in {"queued", "granted"}
      /\ inflight'[Normalized[raw]] = Len(resolutions')
      /\ calls'[Len(calls')].state = "pending"

C4_FailureNotCached == [](C4_FailureState) /\ [][C4_RetryStep]_vars

\* a key whose resolution failed and whose retry has issued its request
C4_Witness ==
  \E r, q \in Rids :
    /\ r < q
    /\ resolutions[r].key = resolutions[q].key
    /\ resolutions[r].pc = "done"
    /\ ~resolutions[r].result.ok
    /\ resolutions[r].requests # <<>>
    /\ resolutions[q].requests # <<>>

(***************************************************************************)
(* C5, as stated.  Once u is cached, every call whose argument normalizes  *)
(* to u's key is answered with the cached object, without request, slot or *)
(* in-flight entry, and over the whole run exactly one page fetch is       *)
(* issued for u.                                                           *)
(***************************************************************************)
C5_CachedStep ==
  \A k \in Keys :
    cache[k] # Undefined =>
      /\ RequestsFor(k)' = RequestsFor(k)
      /\ \A raw \in RawUrls :
           (Normalized[raw] = k /\ CallOf(raw)) =>
             /\ calls'[Len(calls')].state = "fulfilled"
             /\ calls'[Len(calls')].value = cache[k]
             /\ UNCHANGED <<activeCount, waiting, inflight, resolutions>>

C5_ExactlyOnePageFetch ==
  [](\A k \in Keys : cache[k] # Undefined => PageFetches(k) = 1) /\ [][C5_CachedStep]_vars

(***************************************************************************)
(* C5, amended.  Once u is cached, every call whose argument normalizes to *)
(* u's key is answered with the cached object, without request, slot or    *)
(* in-flight entry; no request is issued for u after the success, and the  *)
(* resolution that succeeded issued at most one page fetch (none when      *)
(* oEmbed gave the title).                                                 *)
(***************************************************************************)
C5_CachedAnswers ==
  /\ [](\A k \in Keys :
          cache[k] # Undefined =>
            resolutions[cache[k].oid].requests
              \in { <<"page">>, <<"oembed">>, <<"oembed", "page">> })
  /\ [][C5_CachedStep]_vars

\* a cached URL was asked for again under another spelling and answered
\* from the cache
C5_Witness ==
  \E i, j \in 1..Len(calls) :
    /\ i < j
    /\ calls[i].raw # calls[j].raw
    /\ Normalized[calls[i].raw] = Normalized[calls[j].raw]
    /\ calls[i].rid # 0
    /\ calls[j].rid = 0
    /\ calls[j].value = cache[Normalized[calls[j].raw]]
    /\ calls[j].value.oid = calls[i].rid

(***************************************************************************)
(* C6.  The promise returned by fetchLinkMetadata is never rejected; it is *)
(* fulfilled with a LinkMetadata value, which after a failure is           *)
(* {title: slug-or-hostname title, favicon: "", author: ""}.               *)
(***************************************************************************)
C6_NeverRejected ==
  \A i \in 1..Len(calls) :
    /\ calls[i].state # "rejected"
    /\ calls[i].state = "fulfilled" => calls[i].value # Undefined
    /\ (calls[i].state = "fulfilled" /\ calls[i].rid # 0
          /\ ~resolutions[calls[i].rid].result.ok)
       => /\ calls[i].value.title = UrlTitle[Normalized[calls[i].raw]].val
          /\ calls[i].value.favicon = ""
          /\ calls[i].value.author = ""

(***************************************************************************)
(* C7.  The cache only grows: a key that is mapped to a value stays mapped *)
(* to the same value (the same object) in every later state.               *)
(***************************************************************************)
C7_CacheMonotone ==
  [][\A k \in Keys : cache[k] # Undefined => cache'[k] = cache[k]]_vars

\* an entry is still there after a later resolution has settled
C7_Witness ==
  \E k \in Keys : \E r \in Rids :
    /\ cache[k] # Undefined
    /\ r > cache[k].oid
    /\ resolutions[r].pc = "done"

(***************************************************************************)
(* C8.  A key is in the in-flight table exactly while a resolution of it   *)
(* has been started and has not settled, and the entry is that resolution; *)
(* so the table is empty once every started resolution has settled.        *)
(***************************************************************************)
C8_InflightExact ==
  \A k \in Keys :
    /\ inflight[k] = 0 <=> Pending(k) = {}
    /\ inflight[k] # 0 => inflight[k] \in Pending(k)

\* a success and a failure have both settled and the table is empty
C8_Witness ==
  /\ \E r \in Rids : resolutions[r].pc = "done" /\ resolutions[r].result.ok
  /\ \E r \in Rids : resolutions[r].pc = "done" /\ ~resolutions[r].result.ok
  /\ \A r \in Rids : resolutions[r].pc = "done"
  /\ \A k \in Keys : inflight[k] = 0

(***************************************************************************)
(* C9.  Slots are granted in FIFO order: the queue is in order of arrival, *)
(* and while a request is waiting in the queue no request that asked for a *)
(* slot later has been granted one.                                        *)
(***************************************************************************)
C9_Fifo ==
  /\ \A i, j \in 1..Len(waiting) : i < j => waiting[i] < waiting[j]
  /\ \A i \in 1..Len(waiting) : \A r \in Rids :
       r > waiting[i] => resolutions[r].pc = "queued"

(***************************************************************************)
(* C10.  activeCount never exceeds the currently configured maximum, also  *)
(* after setMaxConcurrent changed it.                                      *)
(***************************************************************************)
C10_WithinCurrentLimit == activeCount <= maxConcurrent

(***************************************************************************)
(* C11.  A fetchLinkMetadata call that is answered from the cache or that  *)
(* attaches to an in-flight resolution changes neither activeCount nor the *)
(* waiter queue, starts no resolution, and is answered whatever the state  *)
(* of the gate: from the cache at once, else with the pending promise.     *)
(***************************************************************************)
C11_HitStep ==
  \A raw \in RawUrls :
    (CallOf(raw) /\ (cache[Normalized[raw]] # Undefined \/ inflight[Normalized[raw]] # 0)) =>
      /\ activeCount' = activeCount
      /\ waiting' = waiting
      /\ resolutions' = resolutions
      /\ inflight' = inflight
      /\ cache' = cache
      /\ cache[Normalized[raw]] # Undefined =>
            /\ calls'[Len(calls')].state = "fulfilled"
            /\ calls'[Len(calls')].value = cache[Normalized[raw]]
      /\ cache[Normalized[raw]] = Undefined =>
            calls'[Len(calls')].rid = inflight[Normalized[raw]]

C12_OembedBeforeSlot ==
  /\ \A r \in Rids :
       (Endpoint[resolutions[r].key] # 0 /\ resolutions[r].pc = "queued")
       => resolutions[r].requests # <<>>
  /\ activeCount <=
       Cardinality({ r \in Rids :
                       /\ resolutions[r].pc \in {"granted", "page", "fetched"}
                       /\ Endpoint[resolutions[r].key] # 0
                            => "page" \in Range(resolutions[r].requests) })

(***************************************************************************)
(* C13.  Every resolution that was granted a slot releases it exactly      *)
(* once, in the step after its doFetch settled, with a value or with an    *)
(* exception: activeCount is the number of resolutions between grant and   *)
(* release, it is never negative, and whenever the in-flight table is      *)
(* empty activeCount is 0 and the waiter queue is empty.                   *)
(***************************************************************************)
C13_State ==
  /\ activeCount >= 0
  /\ activeCount = Cardinality(Holding)
  /\ (\A k \in Keys : inflight[k] = 0) => (activeCount = 0 /\ waiting = <<>>)

C13_Step ==
  \A r \in Rids :
    /\ (resolutions[r].pc \in {"granted", "oembed", "page", "fetched"}
          /\ resolutions'[r].pc \notin {"granted", "oembed", "page", "fetched"})
       => /\ resolutions[r].pc = "fetched"
          /\ resolutions'[r].pc = "released"
          /\ IF waiting = <<>>
             THEN activeCount' = activeCount - 1
             ELSE /\ activeCount' = activeCount
                  /\ waiting' = Tail(waiting)
                  /\ resolutions'[Head(waiting)].pc = "granted"
    /\ resolutions[r].pc \in {"released", "done"}
       => resolutions'[r].pc \in {"released", "done"}
    /\ (resolutions[r].pc # "done" /\ resolutions'[r].pc = "done")
       => resolutions[r].pc = "released"

C13_ReleasedOnce == [](C13_State) /\ [][C13_Step]_vars

\* nothing is in flight after a resolution whose doFetch threw and one whose
\* doFetch returned have both released their slots
C13_Witness ==
  /\ \A k \in Keys : inflight[k] = 0
  /\ \E r, q \in Rids :
       /\ resolutions[r].pc = "done" /\ ~resolutions[r].result.ok
       /\ resolutions[q].pc = "done" /\ resolutions[q].result.ok

(***************************************************************************)
(* C14.  The spellings "example.com" and "https://www.example.com/" of one *)
(* page share one cache entry and one in-flight entry: a call with either, *)
(* in either order, uses the key "https://www.example.com/", at most one   *)
(* resolution is pending for the two together, and what the cache holds    *)
(* for one it holds for the other.                                         *)
(***************************************************************************)
C14_SpellingsShareEntry ==
  /\ \A i \in 1..Len(calls) :
       (calls[i].raw \in {UrlBare, UrlFull} /\ calls[i].rid # 0)
       => resolutions[calls[i].rid].key = UrlFull
  /\ Cardinality(Pending(Normalized[UrlBare]) \cup Pending(Normalized[UrlFull])) <= 1
  /\ getCachedMetadata(UrlBare) = getCachedMetadata(UrlFull)

(***************************************************************************)
(* C15.  normalizeUrl prepends "www." to the hostname exactly when the     *)
(* hostname has two dot-separated labels and leaves other hostnames        *)
(* unchanged; scheme, path, query and fragment are those of the parsed     *)
(* URL.                                                                    *)
(***************************************************************************)
C15_WwwForTwoLabels ==
  (returned # NotCalled /\ URL(Spelled(argument)).ok) =>
    LET u == URL(Spelled(argument)) IN
    returned.val = u.protocol
                   \o (IF Len(Split(u.hostname, ".")) = 2 THEN <<"w","w","w",".">> ELSE <<>>)
                   \o u.hostname \o u.pathname \o u.rest

(***************************************************************************)
(* C16.  normalizeUrl returns (it has no exit by exception), and for a     *)
(* string that is no URL (one without http or https scheme, or without     *)
(* host, such as "not a url") it returns the string unchanged.             *)
(***************************************************************************)
C16_UnparseableUnchanged ==
  (returned # NotCalled
     /\ (argument.scheme = <<>> \/ argument.labels = <<>> \/ argument.path = NotAUrl))
  => /\ returned.called
     /\ returned.val = Spelled(argument)

\* normalizeUrl("not a url") has returned "not a url"
C16_Witness ==
  /\ returned # NotCalled
  /\ Spelled(argument) = NotAUrl
  /\ returned.val = NotAUrl

(***************************************************************************)
(* C17.  For an HTML page on a host without site-specific rule the title   *)
(* is the first non-empty value of: the document title (its first segment *)
(* before a separator), the og:title, the URL-slug title; the document     *)
(* title wins over og:title, and the hostname is the title when the path   *)
(* has no slug-like segment.                                               *)
(***************************************************************************)
C17_TitlePriority ==
  (returned # NotCalled
     /\ argument.url \in {Chars[UrlSlug], PageUrlNoSlug, Chars[UrlBadEscape]})
  => LET d == extractDocTitle(argument.doc)
         o == extractOgTitle(argument.doc)
     IN  /\ returned.meta.ok
         /\ d # <<>> => returned.meta.title = d
         /\ argument.doc.title = <<" ","D","o","c"," ","|"," ","S","i","t","e"," ">> => returned.meta.title = <<"D","o","c">>
         /\ (d = <<>> /\ o # <<>>) => returned.meta.title = o
         /\ (d = <<>> /\ o = <<>>)
            => /\ extractUrlTitle(argument.url).ok
               /\ returned.meta.title = extractUrlTitle(argument.url).val
         /\ (d = <<>> /\ o = <<>> /\ argument.url = PageUrlNoSlug)
            => returned.meta.title = <<"b",".","i","o">>

(***************************************************************************)
(* C18.  extractGithubTitle returns the og:title with everything from the  *)
(* first colon onward removed; when og:title is absent it returns the      *)
(* document title stripped in the same way; it returns undefined when both *)
(* are absent.                                                             *)
(***************************************************************************)
C18_GithubColonStripped ==
  returned # NotCalled =>
    LET og  == extractOgTitle(argument)
        doc == extractDocTitle(argument)
    IN  /\ og # <<>> => returned.val = Trim(Split(og, ":")[1])
        /\ (og = <<>> /\ doc # <<>>) => returned.val = Trim(Split(doc, ":")[1])
        /\ (og = <<>> /\ doc = <<>>) => returned.val = <<>>

C20_OembedClient ==
  returned # NotCalled =>
    /\ argument.url \in OtherUrls
       => (returned.requests = <<>> /\ ~returned.result.found)
    /\ argument.url \in YoutubeUrls \cup VimeoUrls
       => /\ Len(returned.requests) = 1
          /\ StartsWith(returned.requests[1],
                        IF argument.url \in YoutubeUrls THEN EndpointUrl[1] ELSE EndpointUrl[3])
    /\ argument.url = <<"h","t","t","p","s",":","/","/","y","o","u","t","u",".","b","e","/","x">>
       => returned.requests =
            <<EndpointUrl[2] \o <<"h","t","t","p","s","%","3","A","%","2","F","%","2","F","y","o","u","t","u",".","b","e","%","2","F","x">>>>
    /\ (argument.response.kind = "throw"
          \/ argument.response.title \in {<<>>, <<" "," ">>})
       => ~returned.result.found
    /\ (argument.url \in YoutubeUrls \cup VimeoUrls
          /\ argument.response.kind = "json"
          /\ argument.response.title \notin {<<>>, <<" "," ">>})
       => (returned.result.found /\ returned.result.title = <<"C","l","i","p">>)

\* the request for a matching URL failed and fetchOembed returned undefined
C20_Witness ==
  /\ returned # NotCalled
  /\ argument.url = <<"h","t","t","p","s",":","/","/","y","o","u","t","u",".","b","e","/","x">>
  /\ argument.response.kind = "throw"
  /\ Len(returned.requests) = 1
  /\ ~returned.result.found

(***************************************************************************)
(* C21.  The oEmbed attempt of doFetch.                                    *)
(***************************************************************************)
\* C21: when the oEmbed response carries a title, doFetch returns that
\* title, the author of the response and the favicon at the origin of the
\* page, having issued the oEmbed request only; when the oEmbed request
\* fails or carries no title, the page request is issued next.  The
\* requests of a resolution do not change once doFetch has ended.
C21_Step ==
  \A r \in Rids :
    /\ \A response \in OembedResponses :
         doFetchOembed(r, response) =>
           IF response.kind = "json" /\ response.title # ""
           THEN /\ resolutions'[r].pc = "fetched"
                /\ resolutions'[r].result =
                     Returned(response.title, OriginFavicon[resolutions[r].key],
                              response.author)
                /\ resolutions'[r].requests = <<"oembed">>
           ELSE /\ resolutions'[r].pc = "page"
                /\ resolutions'[r].requests = <<"oembed", "page">>
    /\ resolutions[r].pc \in {"fetched", "released", "done"}
         => resolutions'[r].requests = resolutions[r].requests

C21_OembedThenPage == [][C21_Step]_vars

\* one resolution of the video URL went on to the page after an oEmbed
\* attempt without title, a later one ended with the oEmbed title and is
\* cached with the favicon of the origin
C21_Witness ==
  \E r, q \in Rids :
    /\ resolutions[r].requests = <<"oembed", "page">>
    /\ resolutions[r].pc = "done"
    /\ resolutions[q].requests = <<"oembed">>
    /\ resolutions[q].pc = "done"
    /\ cache[resolutions[q].key].title = "Clip"
    /\ cache[resolutions[q].key].author = "Bob"
    /\ cache[resolutions[q].key].favicon = "https://youtu.be/favicon.ico"

(***************************************************************************)
(* C22.  A page response that is not HTML.                                 *)
(***************************************************************************)
\* C22: when the page response is not text/html, doFetch returns (it does
\* not throw) the title of extractUrlTitle, an empty author and the favicon
\* at the origin of the URL, and the success handler stores that result in
\* the cache.
C22_Step ==
  \A r \in Rids :
    /\ \A response \in PageResponses :
         (response.kind = "other" /\ doFetchResponse(r, response)) =>
           /\ UrlTitle[resolutions[r].key].ok
           /\ resolutions'[r].result =
                Returned(UrlTitle[resolutions[r].key].val,
                         OriginFavicon[resolutions[r].key], "")
    /\ (resolutions[r].pc = "released" /\ resolutions[r].result.ok
           /\ resolutions'[r].pc = "done") =>
         cache'[resolutions[r].key] =
           LinkMetadata(resolutions[r].result.title, resolutions[r].result.favicon,
                        resolutions[r].result.author, r)

C22_NonHtmlIsSuccess == [][C22_Step]_vars

(***************************************************************************)
(* C23.  The title of a LinkMetadata.                                      *)
(***************************************************************************)
\* C23: every LinkMetadata that fetchLinkMetadata hands to a caller or
\* stores in the cache has a non-empty title.
C23_TitleNonEmpty ==
  /\ \A i \in 1..Len(calls) : calls[i].state = "fulfilled" => calls[i].value.title # ""
  /\ \A k \in DOMAIN cache : cache[k] # Undefined => cache[k].title # ""

(***************************************************************************)
(* C24, C25.  extractUrlTitle.                                             *)
(***************************************************************************)
\* the segments of the argument that are slug-like: at least two words, and
\* at least ten characters of words
SlugLikeAt(a) ==
  { i \in 1..Len(a.segments) :
      /\ Len(a.segments[i].words) >= 2
      /\ Len(Concat(a.segments[i].words)) >= 10 }

\* the first of the longest slug-like segments
ChosenAt(a) ==
  CHOOSE i \in SlugLikeAt(a) :
    /\ \A j \in SlugLikeAt(a) : a.segments[j].cleaned <= a.segments[i].cleaned
    /\ \A j \in SlugLikeAt(a) : a.segments[j].cleaned = a.segments[i].cleaned => i <= j

\* C24: for a URL that parses, extractUrlTitle returns the capitalised
\* words of the longest slug-like path segment, the first one on a tie, and
\* the hostname when no segment is slug-like.
C24_LongestSlug ==
  (returned.called /\ argument.base # NotAUrl) =>
    /\ returned.val.ok
    /\ returned.val.val = IF SlugLikeAt(argument) = {}
                          THEN <<"b",".","i","o">>
                          ELSE argument.segments[ChosenAt(argument)].title

\* C25: extractUrlTitle returns a string and never throws; the string is
\* the raw input when the input does not parse as a URL, also when a path
\* segment has a percent-escape that cannot be decoded.
C25_NeverThrows ==
  returned.called =>
    /\ returned.val.ok
    /\ argument.base = NotAUrl => returned.val.val = Segmented(argument)
    /\ argument.base # NotAUrl => returned.val.val # <<>>

(***************************************************************************)
(* C26.  extractDocTitle.                                                  *)
(***************************************************************************)
\* C26: extractDocTitle returns the text of the title element up to its
\* first middle dot, vertical bar or em dash, trimmed; a hyphen and an en
\* dash do not end it; it returns undefined (<<>>) when there is no such
\* text.
C26_FirstSegment ==
  returned.called => returned.val = argument.first

\* the title of the GitHub page, followed by a separated tail, came back
\* whole
C26_Witness ==
  /\ returned.called
  /\ argument.first = <<"G","i","t","H","u","b"," ","-"," ","c","h","a","r","m","b","r","a","c","e","l","e","t","/","c","r","u","s","h",":"," ","D","e","s","c","r","i","p","t","i","o","n">>
  /\ argument.tail # <<>>
  /\ returned.val = argument.first

(***************************************************************************)
(* C27.  fetchFavicon.                                                     *)
(***************************************************************************)
\* the absolute URL written down for the first link that has one
RECURSIVE FirstOnPage(_)
FirstOnPage(links) ==
  IF links = <<>> THEN <<>>
  ELSE IF Head(links).onPage # <<>> THEN Head(links).onPage
  ELSE FirstOnPage(Tail(links))

\* C27: the favicon is the href of the first of the links icon, shortcut
\* icon, apple-touch-icon that is present and resolves against the page
\* URL, as an absolute URL; with no such link it is /favicon.ico at the
\* origin of the page; it is the empty string when the page URL does not
\* parse.
C27_FaviconOrder ==
  returned.called =>
    returned.val = IF ~argument.page.parses THEN <<>>
                   ELSE IF FirstOnPage(argument.links) # <<>>
                   THEN FirstOnPage(argument.links)
                   ELSE argument.page.favicon

\* C27 witness: a document without an icon link, with a shortcut icon whose
\* href does not resolve and a relative apple-touch-icon, on a page that
\* parses: the apple-touch-icon is used
C27_Witness ==
  /\ returned.called
  /\ argument.page.parses
  /\ argument.hasDoc
  /\ argument.links[1].href = <<>>
  /\ argument.links[2].href = <<"h","t","t","p","s",":","/","/">>
  /\ argument.links[3].href = <<"i","m","g","/","i",".","p","n","g">>
  /\ returned.val = <<"h","t","t","p","s",":","/","/","b",".","i","o","/","a","/","i","m","g","/","i",".","p","n","g">>

(***************************************************************************)
(* C28.  Page requests that end with a status that is not 2xx.             *)
(***************************************************************************)
\* C28: when the page request of a resolution ends with a status that is
\* not 2xx, the resolution stores nothing in the cache and its callers
\* receive the fallback value (the title of extractUrlTitle, no favicon, no
\* author).  Every page request of SpecStatus ends that way.
C28_Non2xxIsFailure ==
  /\ \A k \in DOMAIN cache :
       cache[k] # Undefined => "page" \notin Range(resolutions[cache[k].oid].requests)
  /\ \A i \in 1..Len(calls) :
       (/\ calls[i].state = "fulfilled"
        /\ calls[i].rid # 0
        /\ "page" \in Range(resolutions[calls[i].rid].requests))
         => calls[i].value = LinkMetadata(UrlTitle[resolutions[calls[i].rid].key].val,
                                          "", "", calls[i].rid)

(***************************************************************************)
(* C29.  The reading-view post-processor.                                  *)
(***************************************************************************)
\* the children that the post-processor leaves for the anchors of an
\* element, given the anchors it is to replace: a pill with the href of the
\* anchor in the place of each of them, the anchor itself elsewhere
PostProcessed(replaceable) ==
  /\ Len(view.nodes) = Len(view.links)
  /\ \A i \in 1..Len(view.links) :
       IF i \in replaceable
       THEN view.nodes[i].kind = "pill" /\ view.nodes[i].href = view.links[i].href
       ELSE view.nodes[i] = LinkNodes(view.links)[i]

\* C29, as stated.  After the post-processor ran, every anchor whose text is
\* empty or equal to its href, and whose href is non-empty, is replaced by
\* exactly one pill, and every other anchor is in place unchanged.
C29_ReplacesEmptyText ==
  (view.rendered /\ view.processed) =>
    PostProcessed({ i \in 1..Len(view.links) :
                     /\ view.links[i].href # ""
                     /\ \/ view.links[i].text = <<>>
                        \/ view.links[i].text = Chars[view.links[i].href] })

\* C29, amended.  After the post-processor ran, every anchor whose text,
\* without the white space around it, is empty or equal to its href, and
\* whose href is non-empty, is replaced by exactly one pill, and every other
\* anchor is in place unchanged.
C29_ReplacesTrimmedEmptyText ==
  (view.rendered /\ view.processed) =>
    PostProcessed({ i \in 1..Len(view.links) :
                     /\ view.links[i].href # ""
                     /\ \/ view.links[i].text \in {<<>>, <<" ">>}
                        \/ view.links[i].text = Chars[view.links[i].href]
                        \/ view.links[i].text = <<" ">> \o Chars[view.links[i].href] \o <<" ">> })

\* C29 witness: an element whose first anchor shows its href and whose
\* second anchor has a text of its own; the first is the pill of the fetched
\* metadata, the second is in place
C29_Witness ==
  /\ view.rendered
  /\ view.processed
  /\ Len(view.links) = 2
  /\ view.links[1].href = UrlSlug
  /\ view.links[1].text = Chars[UrlSlug]
  /\ view.links[2].href = UrlSlug
  /\ view.links[2].text \notin {<<>>, <<" ">>, Chars[UrlSlug], <<" ">> \o Chars[UrlSlug] \o <<" ">>}
  /\ view.callbacks = {}
  /\ view.nodes[1].kind = "pill"
  /\ view.nodes[1].title = "Page"
  /\ view.nodes[2].kind = "link"

(***************************************************************************)
(* C30.  Live Preview: no pill on a link that holds a selection range.     *)
(***************************************************************************)
\* C30: after the constructor and after every update, a full rescan or a
\* rebuild from the known links, no decoration covers a link [](url) of the
\* document while a range of the selection lies within the span of the
\* link, its two ends included.
C30_NoPillUnderCursor ==
  (editor.opened /\ editor.toFetch = <<>>) =>
    \A s \in editor.doc.spans :
      (\E range \in editor.selection : s.from <= range.from /\ range.to <= s.to)
        => ~\E d \in editor.decorations : d.from < s.to /\ s.from < d.to

\* C30 witness: two links one after the other and a cursor at the end of
\* the second; after a rebuild from the known links the first link has its
\* pill and the second has none
C30_Witness ==
  /\ editor.opened
  /\ editor.toFetch = <<>>
  /\ editor.built.by = "rebuildFromKnown"
  /\ editor.selection = {Cursor(60)}
  /\ \E d \in editor.decorations : d.from = 0 /\ d.to = 30
  /\ ~\E d \in editor.decorations : d.from = 30

C32_SameOutcome ==
  \A r \in Rids :
    resolutions[r].pc = "done" =>
      \A i \in 1..Len(calls) :
        calls[i].rid = r =>
          /\ calls[i].state = "fulfilled"
          /\ calls[i].value =
               IF resolutions[r].result.ok
               THEN cache[resolutions[r].key]
               ELSE LinkMetadata(UrlTitle[resolutions[r].key].val, "", "", r)

(***************************************************************************)
(* C33.  Live Preview: the debounce of view.dispatch().                    *)
(***************************************************************************)
\* a completion: a callback of the plugin has run
C33_Completion ==
  /\ editor.opened
  /\ editor'.opened
  /\ editor'.callbacks # editor.callbacks
  /\ editor'.callbacks \subseteq editor.callbacks

\* a completion sets hasPendingFetches and leaves exactly one timeout
\* pending, the one that was pending already if there was one; a timeout
\* goes away only by firing
C33_Step ==
  /\ C33_Completion =>
        /\ editor'.hasPendingFetches
        /\ editor'.dispatchTimer
        /\ editor'.timers = 1
  /\ (editor.opened /\ editor'.opened /\ editor'.timers < editor.timers) =>
        /\ editor'.timers = editor.timers - 1
        /\ ~editor'.dispatchTimer
        /\ ~editor'.hasPendingFetches

\* C33: the plugin has at most one timeout of scheduleDispatch pending,
\* and dispatchTimer is set exactly while it is pending; every fetch
\* completion sets hasPendingFetches and leaves one timeout pending,
\* without starting a second one, so that the completions that arrive
\* before the timeout fires are followed by one view.dispatch().
C33_OneTimer ==
  /\ [](editor.opened => (editor.timers <= 1 /\ (editor.dispatchTimer <=> editor.timers = 1)))
  /\ [][C33_Step]_vars

\* C33 witness: two links are shown, the callbacks of both have run, and
\* the one timeout they share has not fired: the links have no pills yet
C33_Witness ==
  /\ editor.opened
  /\ editor.toFetch = <<>>
  /\ Len(editor.knownLinks) = 2
  /\ editor.selection = {[from |-> 0, to |-> 60]}
  /\ editor.built.by = "buildDecorations"
  /\ Len(calls) = 2
  /\ \A i \in 1..2 : calls[i].state = "fulfilled"
  /\ editor.callbacks = {}
  /\ editor.hasPendingFetches
  /\ editor.timers = 1
  /\ editor.decorations = {}

(***************************************************************************)
(* C34.  The reading view: placeholder, then the pill of the metadata.     *)
(***************************************************************************)
\* the pill shows the metadata
C34_Shows(pill, meta) ==
  /\ pill.title = meta.title
  /\ pill.favicon = meta.favicon
  /\ pill.author = meta.author

\* C34: when the post-processor has run, every anchor it replaces has
\* exactly one pill in its place.  For a URL that was not cached this is
\* the placeholder titled with the hostname, whose callback waits for a
\* promise that is pending or fulfilled, and after the callback the pill
\* of the metadata that the resolution settled with, the successful one
\* or the fallback of the failure; no placeholder is left waiting for
\* a promise that settled otherwise.
C34_PlaceholderThenPill ==
  (view.rendered /\ view.processed /\ view.toFetch = <<>>) =>
    /\ Len(view.nodes) = Len(view.links)
    /\ \A i \in 1..Len(view.links) :
         Replaced(LinkNodes(view.links)[i]) =>
           /\ view.nodes[i].kind = "pill"
           /\ view.nodes[i].href = view.links[i].href
           /\ \/ \E cb \in view.callbacks :
                    /\ cb.placeholder = view.nodes[i].id
                    /\ calls[cb.call].raw = view.links[i].href
                    /\ calls[cb.call].state \in {"pending", "fulfilled"}
                    /\ C34_Shows(view.nodes[i],
                                 [title |-> Placeholder[view.links[i].href], favicon |-> "", author |-> ""])
              \/ \E c \in 1..Len(calls) :
                    /\ calls[c].raw = view.links[i].href
                    /\ calls[c].state = "fulfilled"
                    /\ C34_Shows(view.nodes[i], calls[c].value)
              \/ /\ getCachedMetadata(view.links[i].href) # Undefined
                 /\ C34_Shows(view.nodes[i], getCachedMetadata(view.links[i].href))

(***************************************************************************)
(* C35.  The pattern of the empty links.                                   *)
(***************************************************************************)
\* C35: the pattern captures the whole URL of a link [](url) with an
\* http or https URL, also when the URL has balanced parentheses, and
\* matches neither a link with another scheme nor a link with a display
\* text.
C35_CapturesWholeUrl ==
  returned.called =>
    returned.val =
      IF argument.text = <<>> /\ argument.scheme \in {SchemeHttps, SchemeHttp}
      THEN [match |-> TRUE, group |-> argument.url]
      ELSE NoMatch

(***************************************************************************)
(* C37.  The cache and the in-flight table.                                *)
(***************************************************************************)
\* the resolution has succeeded: doFetch has returned
C37_Succeeded(r) ==
  resolutions[r].pc \in {"fetched", "released", "done"} /\ resolutions[r].result.ok

\* C37: in every state between two steps no key is in the cache and in
\* the in-flight table at once; the key of a resolution that succeeded is
\* in one of the two, in the cache once the success handler has run; and
\* no resolution is started for a key after one that succeeded.
C37_CacheXorInflight ==
  /\ \A key \in Keys : ~(cache[key] # Undefined /\ inflight[key] # 0)
  /\ \A r \in Rids :
       C37_Succeeded(r) =>
         /\ cache[resolutions[r].key] # Undefined \/ inflight[resolutions[r].key] = r
         /\ resolutions[r].pc = "done" => cache[resolutions[r].key] # Undefined
         /\ \A q \in Rids : q > r => resolutions[q].key # resolutions[r].key

\* C37 witness: a resolution has succeeded and a later call for its URL
\* was answered from the cache, after an earlier resolution of the URL had
\* failed; there is no third resolution
C37_Witness ==
  /\ Len(resolutions) = 2
  /\ resolutions[1].key = resolutions[2].key
  /\ resolutions[1].pc = "done" /\ ~resolutions[1].result.ok
  /\ resolutions[2].pc = "done" /\ resolutions[2].result.ok
  /\ Len(calls) = 3
  /\ calls[3].rid = 0
  /\ calls[3].value = cache[resolutions[2].key]
  /\ inflight[resolutions[2].key] = 0

(***************************************************************************)
(* C38.  No lost wake-up in the gate.                                      *)
(***************************************************************************)
\* inflight.size
C38_InflightSize == Cardinality({ key \in Keys : inflight[key] # 0 })

\* with the limit that onload has set, no more slots are held than the
\* limit, and all of them while a waiter is queued
C38_Saturated ==
  /\ activeCount <= maxConcurrent
  /\ waiting # <<>> => activeCount = maxConcurrent

\* a step that leaves the limit as it is, or onload, keeps C38_Saturated
C38_Step ==
  (C38_Saturated /\ (maxConcurrent' = maxConcurrent \/ ~loaded)) => C38_Saturated'

\* C38: while a waiter is queued at least one slot is held; the slots
\* held and the waiters queued are together no more than the entries of
\* the in-flight table; and as long as the limit is the one that onload
\* has set, all slots are held while a waiter is queued: this holds when
\* the module is loaded and every step that does not move the limit
\* keeps it.
C38_NoLostWakeup ==
  /\ [](maxConcurrent >= 1 =>
          /\ waiting # <<>> => activeCount >= 1
          /\ activeCount + Len(waiting) <= C38_InflightSize)
  /\ C38_Saturated
  /\ [][C38_Step]_vars

\* C38 witness: the limit is 1, one resolution holds the slot and a second
\* one is queued behind it
C38_Witness ==
  /\ maxConcurrent = 1
  /\ activeCount = 1
  /\ waiting = <<2>>
  /\ resolutions[1].pc = "page"
  /\ C38_InflightSize = 2

(***************************************************************************)
(* C36.  Progress of the engine.                                           *)
(***************************************************************************)
\* resolution r has issued a request that has not settled
C36_Requesting(r) == resolutions[r].pc \in {"oembed", "page"}

\* while its request has not settled, a resolution stays a slot holder,
\* and the slot is counted
C36_Step ==
  \A r \in Rids :
    (C36_Requesting(r) /\ resolutions'[r].pc = resolutions[r].pc) =>
      /\ r \in Holding'
      /\ activeCount' >= Cardinality(Holding')

\* C36: with a limit of at least 1, when every request that is issued
\* settles, every call of fetchLinkMetadata settles and every queued
\* waiter is granted a slot; and a resolution whose request has not
\* settled keeps its slot.
C36_Progress ==
  /\ \A i \in 1..MaxCalls :
       [](Len(calls) >= i => <>(Len(calls) >= i /\ calls[i].state # "pending"))
  /\ \A r \in 1..MaxCalls :
       []((r \in Rids /\ resolutions[r].pc = "queued")
            => <>(r \in Rids /\ resolutions[r].pc # "queued"))
  /\ [](\A r \in Rids : C36_Requesting(r) => r \in Holding /\ activeCount >= 1)
  /\ [][C36_Step]_vars

\* C36 witness: the limit is 1; the first resolution has released its
\* slot to the waiter queued behind it, whose request is out, and the
\* first call has settled
C36_Witness ==
  /\ maxConcurrent = 1
  /\ Len(resolutions) = 2
  /\ resolutions[1].pc = "done"
  /\ calls[1].state # "pending"
  /\ resolutions[2].pc = "page"
  /\ waiting = <<>>
  /\ activeCount = 1

(***************************************************************************)
(* C40.  Live Preview: the timers of a destroyed plugin.                   *)
(***************************************************************************)
\* a timeout of scheduleDispatch fires: view.dispatch() is called
C40_Dispatch == editor.opened /\ editor'.opened /\ editor'.timers < editor.timers

\* C40: after destroy() no timeout that the plugin has started is
\* pending, neither that of scheduleDispatch nor that of
\* scheduleSearchRebuild, and the plugin does not call view.dispatch() on
\* the destroyed view; this also when a timeout of scheduleDispatch was
\* pending at the time of destroy or a fetch completes after it.
C40_NoTimerAfterDestroy ==
  /\ []((editor.opened /\ editor.destroyed) =>
          (editor.timers = 0 /\ ~editor.searchDebounce))
  /\ [][(editor.opened /\ editor.destroyed) => ~C40_Dispatch]_vars

(***************************************************************************)
(* C39.  Live Preview comes to rest.                                       *)
(***************************************************************************)
\* no timeout of scheduleDispatch is pending and no resolution in flight
C39_AtRest ==
  editor.opened => (editor.timers = 0 /\ \A key \in Keys : inflight[key] = 0)

\* C39: in an editor that is left alone, from some time on the plugin
\* makes no call of fetchLinkMetadata, and no timeout of scheduleDispatch
\* is pending and no resolution is in flight, also when the resolution of
\* a link fails every time.
C39_ComesToRest ==
  /\ <>[][Len(calls') # Len(calls) + 1]_vars
  /\ <>[]C39_AtRest

====
